---- MODULE Spec2Model ----
(***************************************************************************)
(* RouteUp: the geographic chunking algorithms (slice_matrix, the route    *)
(* windows of GoogleMaps.get_route) and the grid-search escalation of the  *)
(* RouteOptimizer, modelled from the Python sources.                       *)
(*                                                                         *)
(* Three programs are modelled, each with its own specification:          *)
(*   SpecSlice  a call of slice_matrix                                     *)
(*   SpecRoute  a call of GoogleMaps.get_route                             *)
(*   SpecGrid   a RouteOptimizer instance and its grid_search calls        *)
(* The variables of the programs a specification does not run stay at      *)
(* their idle values.                                                      *)
(***************************************************************************)
EXTENDS Integers, Sequences, FiniteSets, TLC

VARIABLES
    s_pc,        \* slice_matrix: "idle" | "call" | "done"
    s_args,      \* slice_matrix: the arguments of the call
    s_result,    \* slice_matrix: the returned list of rectangles
    r_pc,        \* get_route: "idle" | "start" | "loop" | "wait" | "done" | "raised"
    r_self,      \* get_route: the GoogleMaps client (max_route_stops)
    r_stops,     \* get_route: the stops argument
    r_costing,   \* get_route: the costing argument
    start_idx,   \* get_route: local start_idx
    end_idx,     \* get_route: local end_idx
    routes,      \* get_route: local routes, the parsed responses so far
    requests,    \* get_route: the windows handed to _prepare_request_route
    api_calls,   \* get_route: the requests sent to client.directions
    r_result,    \* get_route: the returned route, or the error raised
    g_pc,        \* optimizer: position of the caller / of grid_search
    self,        \* optimizer: the RouteOptimizer instance's attributes
    g_input,     \* optimizer: the constructor's arguments
    g_i,         \* _grid_search_solver: the loop variable i
    message,     \* _grid_search_solver: local message
    extra_time,  \* _grid_search_solver: local extra_time
    extra_vehicles, \* _grid_search_solver: local extra_vehicles
    solver_calls,   \* the SolveWithParameters invocations of the current call
    g_result,    \* the value the last grid_search call returned
    g_calls,     \* number of grid_search calls made on the instance
    matrix_writes,  \* the builds that wrote the depot row or column so far
    m_pc,        \* get_matrix: "idle" | "start" | "loop" | "wait" | "done" | "raised"
    m_self,      \* get_matrix: the GoogleMaps client
    m_stops,     \* get_matrix: the stops argument
    m_costing,   \* get_matrix: the costing argument
    m_time,      \* get_matrix: local time_matrix
    m_distance,  \* get_matrix: local distance_matrix
    slices,      \* get_matrix: local slices
    m_done,      \* get_matrix: number of slices the loop has gone through
    matrix_calls,   \* get_matrix: the requests sent to client.distance_matrix
    m_writes,    \* get_matrix: how many times each cell has been assigned
    m_result,    \* get_matrix: the returned MatrixResult, or the error raised
    use_lock,    \* shared instance: whether the callers take a lock
    lock,        \* shared instance: "free", or the call that holds the lock
    b_pc,        \* grid_search: position within a rebuild and its solve
    o_pc,        \* second caller's optimizer_solver: "idle" | "start" |
                 \* "solved" | "data" | "manager" | "done"
    o_routing,   \* second caller: the self.routing its solve ran on
    o_view,      \* second caller: the locals data, manager and routing of
                 \* _extract_output read so far
    c_pc,        \* slice_matrix, call by call: "idle" | "enter" | "return" | ...
    c_args,      \* slice_matrix, call by call: the arguments of the outer call
    c_stack,     \* the frames of the calls that wait for a recursive call
    c_call,      \* the rectangle of the call being entered
    c_ret,       \* the list the call that has just ended returned
    c_result     \* the outer call's return value, or the error raised

call_vars == <<c_pc, c_args, c_stack, c_call, c_ret, c_result>>
slice_vars == <<s_pc, s_args, s_result, call_vars>>
route_vars == <<r_pc, r_self, r_stops, r_costing, start_idx, end_idx, routes,
                requests, api_calls, r_result>>
shared_vars == <<use_lock, lock, b_pc, o_pc, o_routing, o_view>>
grid_vars  == <<g_pc, self, g_input, g_i, message, extra_time, extra_vehicles,
                solver_calls, g_result, g_calls, matrix_writes,
               shared_vars>>
matrix_vars == <<m_pc, m_self, m_stops, m_costing, m_time, m_distance, slices,
                 m_done, matrix_calls, m_writes, m_result>>
vars == <<slice_vars, route_vars, matrix_vars, grid_vars>>

\* Python's None, where an object is expected, and where a costing name is.
None == [none |-> TRUE]
NoCosting == "None"

\* An exception raised out of a call.
Raised(exception, text) == [raised |-> exception, text |-> text]
IsRaised(v) == "raised" \in DOMAIN v

Max(a, b) == IF a >= b THEN a ELSE b
Min(a, b) == IF a <= b THEN a ELSE b

(***************************************************************************)
(* Bounds of the model.                                                    *)
(***************************************************************************)
MaxIndex == 4          \* row and column indices of slice_matrix: 0..MaxIndex
MaxElements == 8       \* max_elements of slice_matrix: 1..MaxElements
MaxStops == 8          \* stops of a get_route request: 0..MaxStops
MaxRouteStops == 4     \* max_route_stops of the client: 1..MaxRouteStops
MaxNodes == 3          \* stops of an optimizer input, depot included: 2..MaxNodes
MaxFleetEntries == 2   \* entries of an input fleet: 1..MaxFleetEntries
MaxCalls == 2          \* grid_search calls made on one instance
MaxMatrixStops == 4    \* stops of a get_matrix request: 1..MaxMatrixStops
MaxDepth == 8          \* frames of slice_matrix the interpreter allows

\* Values the client's code fixes.
DefaultMaxRouteStops == 27
DefaultMaxMatrixElements == 100
PolylinePrecision == 5

(***************************************************************************)
(* routeup/data/client/utils.py                                            *)
(***************************************************************************)
Rect(start_row, end_row, start_col, end_col) ==
    [start_row |-> start_row, end_row |-> end_row,
     start_col |-> start_col, end_col |-> end_col]

\* slice_matrix with the second half starting one past the midpoint.
RECURSIVE slice_matrix_gap(_, _, _, _, _)
slice_matrix_gap(start_row, end_row, start_col, end_col, max_elements) ==
    LET dimension_1 == end_row - start_row
        dimension_2 == end_col - start_col
    IN  IF dimension_1 * dimension_2 <= max_elements
        THEN << Rect(start_row, end_row, start_col, end_col) >>
        ELSE LET max_length == Max(dimension_1, dimension_2)
                 new_length == max_length \div 2
             IN  IF dimension_1 = max_length
                 THEN slice_matrix_gap(start_row, start_row + new_length,
                                       start_col, end_col, max_elements)
                      \o slice_matrix_gap(start_row + new_length + 1, end_row,
                                          start_col, end_col, max_elements)
                 ELSE slice_matrix_gap(start_row, end_row, start_col,
                                       start_col + new_length, max_elements)
                      \o slice_matrix_gap(start_row, end_row,
                                          start_col + new_length + 1, end_col,
                                          max_elements)

\* slice_matrix with the base case's comparison off by one: a rectangle of
\* max_elements + 1 cells is returned whole.
RECURSIVE slice_matrix_early(_, _, _, _, _)
slice_matrix_early(start_row, end_row, start_col, end_col, max_elements) ==
    LET dimension_1 == end_row - start_row
        dimension_2 == end_col - start_col
    IN  IF dimension_1 * dimension_2 <= max_elements + 1
        THEN << Rect(start_row, end_row, start_col, end_col) >>
        ELSE LET max_length == Max(dimension_1, dimension_2)
                 new_length == max_length \div 2
             IN  IF dimension_1 = max_length
                 THEN slice_matrix_early(start_row, start_row + new_length,
                                         start_col, end_col, max_elements)
                      \o slice_matrix_early(start_row + new_length, end_row,
                                            start_col, end_col, max_elements)
                 ELSE slice_matrix_early(start_row, end_row, start_col,
                                         start_col + new_length, max_elements)
                      \o slice_matrix_early(start_row, end_row,
                                            start_col + new_length, end_col,
                                            max_elements)

\* slice_matrix splitting the columns of a square and returning the second
\* half of a split before the first.
RECURSIVE slice_matrix_swapped(_, _, _, _, _)
slice_matrix_swapped(start_row, end_row, start_col, end_col, max_elements) ==
    LET dimension_1 == end_row - start_row
        dimension_2 == end_col - start_col
    IN  IF dimension_1 * dimension_2 <= max_elements
        THEN << Rect(start_row, end_row, start_col, end_col) >>
        ELSE LET max_length == Max(dimension_1, dimension_2)
                 new_length == max_length \div 2
             IN  IF dimension_1 = max_length /\ dimension_1 # dimension_2
                 THEN slice_matrix_swapped(start_row + new_length, end_row,
                                           start_col, end_col, max_elements)
                      \o slice_matrix_swapped(start_row, start_row + new_length,
                                              start_col, end_col, max_elements)
                 ELSE slice_matrix_swapped(start_row, end_row,
                                           start_col + new_length, end_col,
                                           max_elements)
                      \o slice_matrix_swapped(start_row, end_row, start_col,
                                              start_col + new_length,
                                              max_elements)

RECURSIVE slice_matrix(_, _, _, _, _)
slice_matrix(start_row, end_row, start_col, end_col, max_elements) ==
    LET dimension_1 == end_row - start_row
        dimension_2 == end_col - start_col
    IN  IF dimension_1 * dimension_2 <= max_elements
        THEN << Rect(start_row, end_row, start_col, end_col) >>
        ELSE LET max_length == Max(dimension_1, dimension_2)
                 new_length == max_length \div 2
             IN  IF dimension_1 = max_length
                 THEN \* top + down
                      slice_matrix(start_row, start_row + new_length,
                                   start_col, end_col, max_elements)
                      \o slice_matrix(start_row + new_length, end_row,
                                      start_col, end_col, max_elements)
                 ELSE \* left + right
                      slice_matrix(start_row, end_row, start_col,
                                   start_col + new_length, max_elements)
                      \o slice_matrix(start_row, end_row,
                                      start_col + new_length, end_col,
                                      max_elements)

\* The calls of slice_matrix the model makes: every rectangle with
\* end >= start on both axes, every max_elements >= 1.
SliceInputs ==
    { [start_row |-> sr, end_row |-> er, start_col |-> sc, end_col |-> ec,
       max_elements |-> me] :
        sr \in 0..MaxIndex, er \in 0..MaxIndex, sc \in 0..MaxIndex,
        ec \in 0..MaxIndex, me \in 1..MaxElements }

SliceIdle ==
    /\ s_pc = "idle"
    /\ s_args = None
    /\ s_result = None

SliceInit ==
    /\ s_pc = "call"
    /\ s_args \in { a \in SliceInputs :
                        a.end_row >= a.start_row /\ a.end_col >= a.start_col }
    /\ s_result = None

\* One call of slice_matrix, from its arguments to its return value.
SliceMatrix ==
    /\ s_pc = "call"
    /\ s_result' = slice_matrix(s_args.start_row, s_args.end_row,
                                s_args.start_col, s_args.end_col,
                                s_args.max_elements)
    /\ s_pc' = "done"
    /\ UNCHANGED <<s_args, call_vars, route_vars, matrix_vars,
                   grid_vars>>

(***************************************************************************)
(* slice_matrix call by call: the recursion with its frames                *)
(***************************************************************************)
\* new_length taken as a third of the longer side.
NewLengthThird(max_length) == max_length \div 3

\* slice_matrix, line 56: new_length = max_length // 2
NewLength(max_length) == max_length \div 2

\* The number of elements the base case compares with max_elements.
RectElements(r) == (r.end_row - r.start_row) * (r.end_col - r.start_col)

\* slice_matrix, line 57: the rows are split when dimension_1 == max_length.
SplitsRows(r) ==
    r.end_row - r.start_row
        = Max(r.end_row - r.start_row, r.end_col - r.start_col)

\* The rectangle of the first recursive call: top (lines 58-60) or left
\* (lines 66-68).
FirstCall(r) ==
    LET new_length ==
            NewLength(Max(r.end_row - r.start_row, r.end_col - r.start_col))
    IN  IF SplitsRows(r)
        THEN Rect(r.start_row, r.start_row + new_length,
                  r.start_col, r.end_col)
        ELSE Rect(r.start_row, r.end_row,
                  r.start_col, r.start_col + new_length)

\* The rectangle of the second recursive call: down (lines 61-63) or right
\* (lines 69-71).
SecondCall(r) ==
    LET new_length ==
            NewLength(Max(r.end_row - r.start_row, r.end_col - r.start_col))
    IN  IF SplitsRows(r)
        THEN Rect(r.start_row + new_length, r.end_row,
                  r.start_col, r.end_col)
        ELSE Rect(r.start_row, r.end_row,
                  r.start_col + new_length, r.end_col)

\* A frame of slice_matrix waiting for one of its two recursive calls, with
\* the list the first one returned.
Frame(rect, waits_for, first) ==
    [rect |-> rect, waits_for |-> waits_for, first |-> first]

\* The outer calls: rectangles of every size up to MaxIndex on both sides,
\* the empty ones included, at two offsets, with max_elements below 1 as
\* well as up to MaxElements.
CallInputs ==
    { [start_row |-> sr, end_row |-> sr + d1, start_col |-> sc,
       end_col |-> sc + d2, max_elements |-> me] :
        sr \in 0..1, sc \in 0..1, d1 \in 0..MaxIndex, d2 \in 0..MaxIndex,
        me \in (0 - 1)..MaxElements }

CallIdle ==
    /\ c_pc = "idle"
    /\ c_args = None
    /\ c_stack = <<>>
    /\ c_call = None
    /\ c_ret = <<>>
    /\ c_result = None

CallInit ==
    /\ c_pc = "enter"
    /\ c_args \in CallInputs
    /\ c_stack = <<>>
    /\ c_call = Rect(c_args.start_row, c_args.end_row,
                     c_args.start_col, c_args.end_col)
    /\ c_ret = <<>>
    /\ c_result = None

\* The texts of the interpreter's RecursionError: the limit is hit at the
\* recursive call of lines 58-69, or inside max() at line 55 of the
\* deepest frame, depending on the interpreter that runs the code.
RecursionErrorTexts ==
    { "maximum recursion depth exceeded",
      "maximum recursion depth exceeded in comparison" }

\* A call of slice_matrix starts: the base case returns the rectangle
\* itself; otherwise the call makes its first recursive call and waits,
\* unless the interpreter has no frame left for it (RecursionError).
SliceEnter ==
    /\ c_pc = "enter"
    /\ IF RectElements(c_call) <= c_args.max_elements
       THEN /\ c_ret' = <<c_call>>
            /\ c_call' = None
            /\ c_pc' = "return"
            /\ UNCHANGED <<c_stack, c_result>>
       ELSE IF Len(c_stack) >= MaxDepth
       THEN /\ c_pc' = "raised"
            /\ \E text \in RecursionErrorTexts :
                  c_result' = Raised("RecursionError", text)
            /\ UNCHANGED <<c_stack, c_call, c_ret>>
       ELSE /\ c_stack' = Append(c_stack, Frame(c_call, "first", <<>>))
            /\ c_call' = FirstCall(c_call)
            /\ UNCHANGED <<c_pc, c_ret, c_result>>
    /\ UNCHANGED <<c_args, s_pc, s_args, s_result, route_vars, matrix_vars,
                   grid_vars>>

\* A call of slice_matrix returns: to the outer caller, or to the frame
\* that waits for it, which then makes its second call or returns the two
\* lists joined.
SliceReturn ==
    /\ c_pc = "return"
    /\ IF c_stack = <<>>
       THEN /\ c_result' = c_ret
            /\ c_pc' = "done"
            /\ c_ret' = <<>>
            /\ UNCHANGED <<c_stack, c_call>>
       ELSE LET frame == c_stack[Len(c_stack)]
                below == SubSeq(c_stack, 1, Len(c_stack) - 1)
            IN  IF frame.waits_for = "first"
                THEN /\ c_stack' = Append(below,
                                          Frame(frame.rect, "second", c_ret))
                     /\ c_call' = SecondCall(frame.rect)
                     /\ c_ret' = <<>>
                     /\ c_pc' = "enter"
                     /\ UNCHANGED c_result
                ELSE /\ c_stack' = below
                     /\ c_ret' = frame.first \o c_ret
                     /\ UNCHANGED <<c_pc, c_call, c_result>>
    /\ UNCHANGED <<c_args, s_pc, s_args, s_result, route_vars, matrix_vars,
                   grid_vars>>

(***************************************************************************)
(* routeup/data/client/gmaps.py: the GoogleMaps client and get_route       *)
(***************************************************************************)
\* The k-th stop of a request: a pydantic Coordinate.  Stops are distinct.
Coordinate(k) == [latitude |-> k, longitude |-> 0 - k]

\* Python's s[a:b] for 0 <= a, 0 <= b.
PySlice(s, a, b) == SubSeq(s, a + 1, Min(b, Len(s)))

\* A float that is not a whole number of the model's integers is kept
\* exact, as a fraction in lowest terms: 1.5 is Float(3, 2), 1500.0 is
\* Float(1500, 1), 1e-3 is Float(1, 1000).
RECURSIVE GCD(_, _)
GCD(a, b) == IF b = 0 THEN a ELSE GCD(b, a % b)

Float(num, den) ==
    LET g == GCD(num, den) IN [num |-> num \div g, den |-> den \div g]

\* GoogleMaps.__init__ under a configuration with the given API key and
\* distance metric: the client, or the exception of line 35 or line 45.
GoogleMapsInit(api_key, max_route_stops, max_matrix_elements, distance_metric) ==
    IF api_key = ""
    THEN Raised("MissingAPIKey", "Google Maps API key not found")
    ELSE IF distance_metric \notin {"meters", "kilometers"}
    THEN Raised("ValueError", "Invalid distance metric")
    ELSE [max_route_stops |-> max_route_stops,
          max_matrix_elements |-> max_matrix_elements,
          polyline_precision |-> PolylinePrecision,
          distance_conversion_factor |->
              IF distance_metric = "meters"
              THEN Float(1, 1)
              ELSE Float(1, 1000)]

\* The clients that come to exist under some configuration, with the given
\* constructor arguments.
GoogleMapsClients(route_stops, matrix_elements) ==
    { gm \in { GoogleMapsInit(k, a, b, d) :
                 k \in {"", "key"}, a \in route_stops, b \in matrix_elements,
                 d \in {"meters", "kilometers", "miles"} } :
        ~IsRaised(gm) }

\* value * self.distance_conversion_factor, lines 83 and 117.
ConvertDistance(gm, value) ==
    Float(value * gm.distance_conversion_factor.num,
          gm.distance_conversion_factor.den)

\* The provider's duration in seconds and distance in metres from one
\* prepared stop to another: zero from a place to itself, different for the
\* two directions of a pair, and not a whole number of kilometres.
ApiDuration(origin, destination) ==
    IF origin = destination THEN 0
    ELSE 60 * (10 * origin.lat + destination.lat)

ApiDistance(origin, destination) ==
    IF origin = destination THEN 0
    ELSE 1500 * (10 * origin.lat + destination.lat) - 1


\* GoogleMaps._prepare_stops: one RequestStopGoogle dump per stop, in order.
prepare_stops(stops) ==
    [k \in 1..Len(stops) |->
        [lat |-> stops[k].latitude, lng |-> stops[k].longitude]]

\* GoogleMaps._prepare_request_route
prepare_request_route(gm, stops, costing) ==
    LET stops_input == prepare_stops(stops)
        n == Len(stops_input)
    IN  IF n < 2
        THEN Raised("InvalidRequestFormat", "At least two stops are required")
        ELSE IF n < 3
        THEN [origin |-> stops_input[1], destination |-> stops_input[2],
              mode |-> costing]
        ELSE IF n >= 3 /\ n <= gm.max_route_stops
        THEN [origin |-> stops_input[1], destination |-> stops_input[n],
              waypoints |-> SubSeq(stops_input, 2, n - 1), mode |-> costing]
        ELSE Raised("InvalidRequestFormat",
                    "Maximum number of stops is "
                        \o ToString(gm.max_route_stops))

\* The places a directions request visits, in order.
RequestPlaces(request) ==
    <<request.origin>>
    \o (IF "waypoints" \in DOMAIN request THEN request.waypoints ELSE <<>>)
    \o <<request.destination>>

\* 10^precision, the scale of an encoded polyline's coordinates.
RECURSIVE PolylineFactor(_)
PolylineFactor(precision) ==
    IF precision = 0 THEN 1 ELSE 10 * PolylineFactor(precision - 1)

\* The provider's encoded polyline through the given places: the
\* coordinates as whole numbers at the provider's precision.
EncodePolyline(places) ==
    [k \in 1..Len(places) |->
        <<places[k].lat * PolylineFactor(PolylinePrecision),
          places[k].lng * PolylineFactor(PolylinePrecision)>>]

\* polyline.decode(points, precision): the (latitude, longitude) pairs,
\* scaled back by 10^precision.
DecodePolyline(points, precision) ==
    [k \in 1..Len(points) |->
        <<Float(points[k][1], PolylineFactor(precision)),
          Float(points[k][2], PolylineFactor(precision))>>]

\* The legs of the provider's route for a request: one per consecutive pair
\* of places.
DirectionsLegs(request) ==
    LET places == RequestPlaces(request)
    IN  [k \in 1..(Len(places) - 1) |->
            [duration |-> [value |-> ApiDuration(places[k], places[k + 1])],
             distance |-> [value |-> ApiDistance(places[k], places[k + 1])]]]

\* client.directions: a list with one route, its polyline and its legs.
DirectionsResponse(request) ==
    << [overview_polyline |->
            [points |-> EncodePolyline(RequestPlaces(request))],
        legs |-> DirectionsLegs(request)] >>

\* What the provider may answer: the route, no route at all, a route
\* without its polyline or without its legs, a route whose first leg has no
\* duration or no distance.
DirectionsResponses(request) ==
    LET legs == DirectionsLegs(request)
        points == [points |-> EncodePolyline(RequestPlaces(request))]
    IN  { DirectionsResponse(request),
          <<>>,
          << [legs |-> legs] >>,
          << [overview_polyline |-> points] >>,
          << [overview_polyline |-> points,
              legs |-> [legs EXCEPT ![1] = [distance |-> legs[1].distance]]] >>,
          << [overview_polyline |-> points,
              legs |-> [legs EXCEPT ![1] = [duration |-> legs[1].duration]]] >> }

\* schemas.CartographyRoute.  Its validators reject a null value and lists
\* of different lengths; the client builds both lists over the same legs
\* from numbers, so neither can fail here.
CartographyRoute(coordinates, times, distances) ==
    [coordinates |-> coordinates, times |-> times, distances |-> distances]

\* GoogleMaps._parse_route_response
parse_route_response(gm, response) ==
    IF Len(response) = 0
    THEN Raised("IndexError", "list index out of range")
    ELSE LET route == response[1]
         IN  IF "overview_polyline" \notin DOMAIN route
                \/ "legs" \notin DOMAIN route
             THEN Raised("InvalidResponseFormat",
                         "'overview_polyline' or 'legs' not found in response")
             ELSE IF \E k \in 1..Len(route.legs) :
                        "duration" \notin DOMAIN route.legs[k]
             THEN Raised("InvalidResponseFormat", "'duration'")
             ELSE IF \E k \in 1..Len(route.legs) :
                        "distance" \notin DOMAIN route.legs[k]
             THEN Raised("InvalidResponseFormat", "'distance'")
             ELSE CartographyRoute(
                    DecodePolyline(route.overview_polyline.points,
                                   gm.polyline_precision),
                    [k \in 1..Len(route.legs) |->
                        route.legs[k].duration.value],
                    [k \in 1..Len(route.legs) |->
                        ConvertDistance(gm, route.legs[k].distance.value)])

\* GoogleMaps._combine_routes
RECURSIVE combine_routes(_)
combine_routes(rs) ==
    IF rs = <<>>
    THEN CartographyRoute(<<>>, <<>>, <<>>)
    ELSE LET rest == combine_routes(Tail(rs))
         IN  CartographyRoute(Head(rs).coordinates \o rest.coordinates,
                              Head(rs).times \o rest.times,
                              Head(rs).distances \o rest.distances)

\* get_route's index update with the next window starting after the
\* previous one instead of on its last stop.
NextStartIdxNoOverlap(e) == e

\* get_route: start_idx = end_idx - 1
NextStartIdx(e) == e - 1

\* get_route: end_idx = min(end_idx + self.max_route_stops, len(stops))
NextEndIdx(gm, e, stops) == Min(e + gm.max_route_stops, Len(stops))

\* get_route's loop condition
RouteLoopCond == (end_idx <= Len(r_stops)) /\ (start_idx < Len(r_stops) - 1)

RouteIdle ==
    /\ r_pc = "idle"
    /\ r_self = None
    /\ r_stops = <<>>
    /\ r_costing = NoCosting
    /\ start_idx = 0
    /\ end_idx = 0
    /\ routes = <<>>
    /\ requests = <<>>
    /\ api_calls = <<>>
    /\ r_result = None

RouteInit ==
    /\ r_pc = "start"
    /\ r_self \in GoogleMapsClients(1..MaxRouteStops,
                                     {DefaultMaxMatrixElements})
    /\ r_stops \in { [k \in 1..n |-> Coordinate(k)] : n \in 0..MaxStops }
    /\ r_costing \in {NoCosting, "driving", "walking"}
    /\ start_idx = 0
    /\ end_idx = 0
    /\ routes = <<>>
    /\ requests = <<>>
    /\ api_calls = <<>>
    /\ r_result = None

\* get_route up to its loop: the costing default and the first window.
GetRouteStart ==
    /\ r_pc = "start"
    /\ r_costing' = IF r_costing = NoCosting THEN "driving" ELSE r_costing
    /\ start_idx' = 0
    /\ end_idx' = Min(Len(r_stops), r_self.max_route_stops)
    /\ routes' = <<>>
    /\ r_pc' = "loop"
    /\ UNCHANGED <<r_self, r_stops, requests, api_calls, r_result,
                   slice_vars, matrix_vars,
                   grid_vars>>

\* get_route's loop up to the call of the API, lines 241-243: the window's
\* request is built, which may raise, and sent.
GetRouteRequest ==
    /\ r_pc = "loop"
    /\ RouteLoopCond
    /\ LET window == PySlice(r_stops, start_idx, end_idx)
           request == prepare_request_route(r_self, window, r_costing)
       IN  /\ requests' = Append(requests, window)
           /\ IF IsRaised(request)
              THEN /\ r_pc' = "raised"
                   /\ r_result' = request
                   /\ UNCHANGED api_calls
              ELSE /\ api_calls' = Append(api_calls, request)
                   /\ r_pc' = "wait"
                   /\ UNCHANGED r_result
    /\ UNCHANGED <<r_self, r_stops, r_costing, start_idx, end_idx, routes,
                   slice_vars, matrix_vars, grid_vars>>

\* The provider's answer arrives, lines 243-247: it is parsed, which may
\* raise, the route is kept and the indices move.
GetRouteAnswer ==
    /\ r_pc = "wait"
    /\ \E response \in DirectionsResponses(api_calls[Len(api_calls)]) :
          LET route == parse_route_response(r_self, response)
          IN  IF IsRaised(route)
              THEN /\ r_pc' = "raised"
                   /\ r_result' = route
                   /\ UNCHANGED <<routes, start_idx, end_idx>>
              ELSE /\ routes' = Append(routes, route)
                   /\ start_idx' = NextStartIdx(end_idx)
                   /\ end_idx' = NextEndIdx(r_self, end_idx, r_stops)
                   /\ r_pc' = "loop"
                   /\ UNCHANGED r_result
    /\ UNCHANGED <<r_self, r_stops, r_costing, requests, api_calls,
                   slice_vars, matrix_vars, grid_vars>>

\* get_route's return: the loop condition is false.
GetRouteReturn ==
    /\ r_pc = "loop"
    /\ ~RouteLoopCond
    /\ r_result' = combine_routes(routes)
    /\ r_pc' = "done"
    /\ UNCHANGED <<r_self, r_stops, r_costing, start_idx, end_idx, routes,
                   requests, api_calls, slice_vars, matrix_vars,
                   grid_vars>>

(***************************************************************************)
(* routeup/data/client/gmaps.py: GoogleMaps.get_matrix                     *)
(***************************************************************************)
\* client.distance_matrix: one row per origin, one element per destination.
MatrixResponse(request) ==
    [rows |->
        [a \in 1..Len(request.origins) |->
            [elements |->
                [b \in 1..Len(request.destinations) |->
                    [duration |-> [value |->
                        ApiDuration(request.origins[a],
                                    request.destinations[b])],
                     distance |-> [value |->
                        ApiDistance(request.origins[a],
                                    request.destinations[b])]]]]]]

\* What the provider may answer: the matrix, a body without rows or with
\* no row in it, a matrix whose last row has no elements, and one whose
\* first element lacks its duration or its distance, alone or next to a
\* last row without elements.
MatrixResponses(request) ==
    LET rows == MatrixResponse(request).rows
        n == Len(rows)
        first == rows[1].elements[1]
        no_duration ==
            [rows EXCEPT ![1].elements[1] = [distance |-> first.distance]]
        no_distance ==
            [rows EXCEPT ![1].elements[1] = [duration |-> first.duration]]
    IN  { MatrixResponse(request),
          [error_message |-> "denied"],
          [rows |-> <<>>],
          [rows |-> [rows EXCEPT ![n] = [status |-> "x"]]],
          [rows |-> no_duration],
          [rows |-> no_distance],
          [rows |-> [no_duration EXCEPT ![n] =
                        IF n = 1 THEN no_duration[1] ELSE [status |-> "x"]]] }

MatrixResult(time_matrix, distance_matrix) ==
    [time_matrix |-> time_matrix, distance_matrix |-> distance_matrix]

\* A row _parse_matrix_response raises on: it has no elements, or one of
\* its elements lacks its duration or its distance.
BadMatrixRow(row) ==
    \/ "elements" \notin DOMAIN row
    \/ \E b \in 1..Len(row.elements) :
          \/ "duration" \notin DOMAIN row.elements[b]
          \/ "distance" \notin DOMAIN row.elements[b]

\* GoogleMaps._parse_matrix_response: the rows are gone through in order,
\* each row's elements before the next row.
parse_matrix_response(gm, response) ==
    IF "rows" \notin DOMAIN response
    THEN Raised("InvalidResponseFormat",
                "Invalid response format: 'rows' not found")
    ELSE LET rows == response.rows
             bad == { a \in 1..Len(rows) : BadMatrixRow(rows[a]) }
         IN  IF Len(rows) = 0
             THEN Raised("InvalidResponseFormat", "No rows in response")
             ELSE IF bad # {}
             THEN LET a == CHOOSE x \in bad : \A y \in bad : x <= y
                  IN  IF "elements" \notin DOMAIN rows[a]
                      THEN Raised("InvalidResponseFormat",
                                  "'elements' not found in a row")
                      ELSE Raised("InvalidResponseFormat",
                             "'duration' or 'distance' not found in an element")
             ELSE MatrixResult(
                    [a \in 1..Len(rows) |->
                        [b \in 1..Len(rows[a].elements) |->
                            rows[a].elements[b].duration.value]],
                    [a \in 1..Len(rows) |->
                        [b \in 1..Len(rows[a].elements) |->
                            ConvertDistance(gm,
                                rows[a].elements[b].distance.value)]])

\* np.zeros((n, n)): cells are indexed from 0.  The durations written to
\* the time matrix are whole numbers and its cells are kept as integers.
Zeros(n) == [c \in (0..(n - 1)) \X (0..(n - 1)) |-> 0]

\* np.zeros((n, n)) for the distance matrix, whose cells hold products with
\* the conversion factor.
FloatZeros(n) == [c \in (0..(n - 1)) \X (0..(n - 1)) |-> Float(0, 1)]

\* The cells matrix[start_row:end_row, start_col:end_col] names.
BlockCells(slice) ==
    (slice.start_row..(slice.end_row - 1))
        \X (slice.start_col..(slice.end_col - 1))

\* A block assignment that writes the block at the matrix's top left corner.
AssignBlockAtCorner(matrix, slice, block) ==
    LET corner == [start_row |-> 0,
                   end_row |-> slice.end_row - slice.start_row,
                   start_col |-> 0,
                   end_col |-> slice.end_col - slice.start_col]
    IN  [c \in DOMAIN matrix |->
            IF c \in BlockCells(corner)
            THEN block[c[1] + 1][c[2] + 1]
            ELSE matrix[c]]

\* matrix[start_row:end_row, start_col:end_col] = block
AssignBlock(matrix, slice, block) ==
    [c \in DOMAIN matrix |->
        IF c \in BlockCells(slice)
        THEN block[c[1] - slice.start_row + 1][c[2] - slice.start_col + 1]
        ELSE matrix[c]]

MatrixIdle ==
    /\ m_pc = "idle"
    /\ m_self = None
    /\ m_stops = <<>>
    /\ m_costing = NoCosting
    /\ m_time = <<>>
    /\ m_distance = <<>>
    /\ slices = <<>>
    /\ m_done = 0
    /\ matrix_calls = <<>>
    /\ m_writes = <<>>
    /\ m_result = None

MatrixInit ==
    /\ m_pc = "start"
    /\ m_self \in GoogleMapsClients({DefaultMaxRouteStops}, 1..MaxElements)
    /\ m_stops \in { [k \in 1..n |-> Coordinate(k)] : n \in 1..MaxMatrixStops }
    /\ m_costing \in {NoCosting, "driving", "walking"}
    /\ m_time = <<>>
    /\ m_distance = <<>>
    /\ slices = <<>>
    /\ m_done = 0
    /\ matrix_calls = <<>>
    /\ m_writes = <<>>
    /\ m_result = None

\* get_matrix up to its loop: the costing default, the two zero matrices and
\* the list of slices.
GetMatrixStart ==
    /\ m_pc = "start"
    /\ m_costing' = IF m_costing = NoCosting THEN "driving" ELSE m_costing
    /\ LET n == Len(m_stops)
       IN  /\ m_time' = Zeros(n)
           /\ m_distance' = FloatZeros(n)
           /\ m_writes' = Zeros(n)
           /\ slices' = slice_matrix(0, n, 0, n, m_self.max_matrix_elements)
    /\ m_done' = 0
    /\ m_pc' = "loop"
    /\ UNCHANGED <<m_self, m_stops, matrix_calls, m_result, slice_vars,
                   route_vars, grid_vars>>

\* get_matrix's loop up to the call of the API, lines 179-192: the slice's
\* request is built and sent.
GetMatrixRequest ==
    /\ m_pc = "loop"
    /\ m_done < Len(slices)
    /\ LET slice == slices[m_done + 1]
           origin_stops == PySlice(m_stops, slice.start_row, slice.end_row)
           destination_stops ==
               PySlice(m_stops, slice.start_col, slice.end_col)
           request == [origins |-> prepare_stops(origin_stops),
                       destinations |-> prepare_stops(destination_stops),
                       mode |-> m_costing]
       IN  matrix_calls' = Append(matrix_calls, request)
    /\ m_pc' = "wait"
    /\ UNCHANGED <<m_self, m_stops, m_costing, m_time, m_distance, slices,
                   m_done, m_writes, m_result, slice_vars, route_vars,
                   grid_vars>>

\* The provider's answer arrives, lines 192-202: it is parsed, which may
\* raise, and its two blocks are assigned to the slice's rectangle.
GetMatrixAnswer ==
    /\ m_pc = "wait"
    /\ LET slice == slices[m_done + 1]
       IN  \E response \in MatrixResponses(matrix_calls[Len(matrix_calls)]) :
             LET m == parse_matrix_response(m_self, response)
             IN  IF IsRaised(m)
                 THEN /\ m_pc' = "raised"
                      /\ m_result' = m
                      /\ UNCHANGED <<m_time, m_distance, m_writes, m_done>>
                 ELSE /\ m_time' = AssignBlock(m_time, slice, m.time_matrix)
                      /\ m_distance' =
                           AssignBlock(m_distance, slice, m.distance_matrix)
                      /\ m_writes' =
                           [c \in DOMAIN m_writes |->
                               IF c \in BlockCells(slice)
                               THEN m_writes[c] + 1
                               ELSE m_writes[c]]
                      /\ m_done' = m_done + 1
                      /\ m_pc' = "loop"
                      /\ UNCHANGED m_result
    /\ UNCHANGED <<m_self, m_stops, m_costing, slices, matrix_calls,
                   slice_vars, route_vars, grid_vars>>

\* get_matrix's return: the loop has gone through every slice.
GetMatrixReturn ==
    /\ m_pc = "loop"
    /\ m_done = Len(slices)
    /\ m_result' = MatrixResult(m_time, m_distance)
    /\ m_pc' = "done"
    /\ UNCHANGED <<m_self, m_stops, m_costing, m_time, m_distance, slices,
                   m_done, matrix_calls, m_writes, slice_vars, route_vars,
                   grid_vars>>

(***************************************************************************)
(* routeup/ml/route_optimizer.py: RouteOptimizer                           *)
(***************************************************************************)
INBOUND == "inbound"
OUTBOUND == "outbound"

DefaultVehiclePenalty == 10000   \* __init__(vehicle_penalty=10000)
DefaultSlackTime == 120          \* _set_routing(slack_time=120)
IterMaxExtraTime == 3            \* _grid_search_solver(iter_max_extra_time=3)
IterMaxExtraVehicle == 3         \* _grid_search_solver(iter_max_extra_vehicle=3)
SecondsPerMinute == 60           \* extra_max_travel_time=i * 60

Fleet(number_of_vehicles, capacity) ==
    [number_of_vehicles |-> number_of_vehicles, capacity |-> capacity]

GridSearchOutput(et, ev, msg) ==
    [extra_time |-> et, extra_vehicles |-> ev, message |-> msg]

\* Strings are sequences of tokens; an f-string is the sequence of its parts.
MsgWithoutGridSearch == <<"Solution found without grid search">>
MsgExtraTime(i) ==
    <<"Solution can be found with ", i, " minutes more of extra time">>
MsgExtraVehicles(i) ==
    <<"Solution can be found with ", i, " vehicle/s more \n">>
MsgNoSolution == <<"No solution found with extra vehicles or extra time.">>

\* sep.join(parts)
RECURSIVE Join(_, _)
Join(sep, parts) ==
    IF parts = <<>> THEN <<>>
    ELSE IF Len(parts) = 1 THEN parts[1]
    ELSE parts[1] \o sep \o Join(sep, Tail(parts))

\* len() of a matrix or list indexed from 0
PyLen(f) == Cardinality(DOMAIN f)

\* [x] * n
RECURSIVE Repeat(_, _)
Repeat(x, n) == IF n <= 0 THEN <<>> ELSE <<x>> \o Repeat(x, n - 1)

\* min() in the place of max()
RECURSIVE PyMin(_)
PyMin(s) == IF Len(s) = 1 THEN s[1] ELSE Min(s[1], PyMin(Tail(s)))

\* max() of a non-empty list
RECURSIVE PyMax(_)
PyMax(s) == IF Len(s) = 1 THEN s[1] ELSE Max(s[1], PyMax(Tail(s)))

\* [item.capacity for item in fleet for _ in range(item.number_of_vehicles)]
RECURSIVE FlattenFleet(_)
FlattenFleet(fleet) ==
    IF fleet = <<>> THEN <<>>
    ELSE Repeat(Head(fleet).capacity, Head(fleet).number_of_vehicles)
         \o FlattenFleet(Tail(fleet))

\* The depot adjustment overwriting the depot's row and its column alike.
AdjustTimeMatrixBothWays(slf) ==
    [i \in DOMAIN slf.time_matrix |->
        [j \in DOMAIN slf.time_matrix[i] |->
            IF i = 0 \/ j = 0
            THEN 0 - slf.slack_time
            ELSE slf.time_matrix[i][j]]]

\* The depot adjustment with the two modes exchanged.
AdjustTimeMatrixSwapped(slf) ==
    [i \in DOMAIN slf.time_matrix |->
        [j \in DOMAIN slf.time_matrix[i] |->
            IF slf.mode = OUTBOUND
            THEN (IF i = 0 THEN 0 - slf.slack_time ELSE slf.time_matrix[i][j])
            ELSE (IF j = 0 THEN 0 - slf.slack_time ELSE slf.time_matrix[i][j])]]

\* _create_data_model, lines 76-87: the depot row (INBOUND) or column
\* (OUTBOUND) of self.time_matrix is overwritten in place with -slack_time.
AdjustTimeMatrix(slf) ==
    [i \in DOMAIN slf.time_matrix |->
        [j \in DOMAIN slf.time_matrix[i] |->
            IF slf.mode = INBOUND
            THEN (IF i = 0 THEN 0 - slf.slack_time ELSE slf.time_matrix[i][j])
            ELSE (IF j = 0 THEN 0 - slf.slack_time ELSE slf.time_matrix[i][j])]]

\* _create_data_model, lines 89-107.  data["time_matrix"] is self.time_matrix
\* itself, after the in-place adjustment.
create_data_model(slf, extra_veh, extra_max_travel_time) ==
    LET base == FlattenFleet(slf.fleet)
        max_capacity == PyMax(base)
        vehicle_capacities == base \o Repeat(max_capacity, extra_veh)
    IN  [time_matrix |-> AdjustTimeMatrix(slf),
         demands |-> slf.demands,
         vehicle_capacities |-> vehicle_capacities,
         num_vehicles |-> Len(vehicle_capacities),
         depot |-> 0,
         max_travel_time |-> slf.max_travel_time + extra_max_travel_time]

\* A manager set up for one vehicle more than the data has.
set_manager_one_vehicle_more(slf) ==
    [num_nodes |-> PyLen(slf.data.time_matrix),
     num_vehicles |-> slf.data.num_vehicles + 1,
     depot |-> slf.data.depot]

\* _set_manager
set_manager(slf) ==
    [num_nodes |-> PyLen(slf.data.time_matrix),
     num_vehicles |-> slf.data.num_vehicles,
     depot |-> slf.data.depot]

\* _set_routing: the routing model keeps the manager, the data dictionary,
\* the fixed cost of every vehicle and the slack_time its transit callback
\* adds; its dimensions are Capacity (data.vehicle_capacities) and Time
\* (data.max_travel_time).
set_routing(slf, vehicle_penalty, slack_time) ==
    [manager |-> slf.manager,
     data |-> slf.data,
     vehicle_penalty |-> vehicle_penalty,
     slack_time |-> slack_time]

\* time_callback of a routing model, on node indices.
time_callback(routing, from_node, to_node) ==
    routing.data.time_matrix[from_node][to_node] + routing.slack_time

\* self.data = ...; self.manager = ...; self.routing = ... with the given
\* arguments: the three assignments every (re)build of the model makes.
Build(slf, extra_veh, extra_max_travel_time, vehicle_penalty, slack_time) ==
    LET s1 == [slf EXCEPT
                 !.data = create_data_model(slf, extra_veh,
                                            extra_max_travel_time),
                 !.time_matrix = AdjustTimeMatrix(slf)]
        s2 == [s1 EXCEPT !.manager = set_manager(s1)]
    IN  [s2 EXCEPT !.routing = set_routing(s2, vehicle_penalty, slack_time)]

\* RouteOptimizer.__init__
RouteOptimizerInit(route_optimizer_input, vehicle_penalty) ==
    LET s0 == [mode |-> route_optimizer_input.mode,
               time_matrix |-> route_optimizer_input.time_matrix,
               fleet |-> route_optimizer_input.fleet,
               demands |-> route_optimizer_input.demands,
               max_travel_time |-> route_optimizer_input.max_travel_time,
               slack_time |-> route_optimizer_input.slack_time,
               vehicle_penalty |-> vehicle_penalty,
               data |-> None, manager |-> None, routing |-> None]
    IN  Build(s0, 0, 0, vehicle_penalty, s0.slack_time)

\* The i-th time attempt built one step too far.
RebuildExtraTimeOffByOne(slf, i) ==
    Build(slf, 0, (i + 1) * SecondsPerMinute, slf.vehicle_penalty,
          DefaultSlackTime)

\* _grid_search_solver, lines 364-368: the model of the i-th time attempt.
RebuildExtraTime(slf, i) ==
    Build(slf, 0, i * SecondsPerMinute, slf.vehicle_penalty, DefaultSlackTime)

\* The i-th vehicle attempt built on top of the extra time found so far.
RebuildExtraVehiclesKeepingTime(slf, i) ==
    Build(slf, i, extra_time, slf.vehicle_penalty, DefaultSlackTime)

\* _grid_search_solver, lines 391-395: the model of the i-th vehicle attempt.
RebuildExtraVehicles(slf, i) ==
    Build(slf, i, 0, slf.vehicle_penalty, DefaultSlackTime)

\* The final rebuild leaving one escalation vehicle in the model.
RebuildBaselineKeepingVehicle(slf) ==
    Build(slf, 1, 0, slf.vehicle_penalty, DefaultSlackTime)

\* _grid_search_solver, lines 423-425: the final rebuild.
RebuildBaseline(slf) ==
    Build(slf, 0, 0, slf.vehicle_penalty, DefaultSlackTime)

\* The extra-time loop running one iteration too many.
TimeRangeOneMore == 1..(IterMaxExtraTime + 1)

\* range(1, iter_max_extra_time + 1)
TimeRange == 1..IterMaxExtraTime

\* range(1, iter_max_extra_vehicle + 1)
VehicleRange == 1..IterMaxExtraVehicle

\* The first solve's success reported as one step of extra time.
SolvedWithOneStep ==
    GridSearchOutput(SecondsPerMinute, Fleet(0, 0),
                     Join(<<" or ">>, <<MsgWithoutGridSearch>>))

\* grid_search, lines 260-264: the value returned when the first solve
\* succeeds.
SolvedWithoutGridSearch ==
    GridSearchOutput(0, Fleet(0, 0), Join(<<" or ">>, <<MsgWithoutGridSearch>>))

\* _grid_search_solver, line 383
ExtraTimeFound(i) == i * SecondsPerMinute

\* The vehicle attempt that succeeded reported as the one after it.
ExtraVehiclesFoundOneMore(slf, i) == Fleet(i + 1, PyMax(FlattenFleet(slf.fleet)))

\* _grid_search_solver, lines 410-417
ExtraVehiclesFound(slf, i) == Fleet(i, PyMax(FlattenFleet(slf.fleet)))

\* The default message left out.
FinalMessageUnchanged(msg) == msg

\* _grid_search_solver, lines 421-422
FinalMessage(msg) ==
    IF Len(msg) = 0 THEN Append(msg, MsgNoSolution) ELSE msg

\* One SolveWithParameters invocation on self.routing, as the solver sees it:
\* the routing model, the place in the code that made the call, and the
\* solver's answer.
SolverCall(routing, phase, i, solution) ==
    [routing |-> routing, phase |-> phase, i |-> i, solution |-> solution]

(***************************************************************************)
(* optimizer_solver and _extract_output                                    *)
(***************************************************************************)
\* The output schemas, as plain records.  vehicle_occupancy is None where
\* the code does not pass it.
RouteStop(stop_id, stop_demand, travel_time, vehicle_occupancy) ==
    [stop_id |-> stop_id, stop_demand |-> stop_demand,
     travel_time |-> travel_time, vehicle_occupancy |-> vehicle_occupancy]

Route(vehicle_capacity, vehicle_travel_occupancy, vehicle_travel_time, route_stops) ==
    [vehicle_capacity |-> vehicle_capacity,
     vehicle_travel_occupancy |-> vehicle_travel_occupancy,
     vehicle_travel_time |-> vehicle_travel_time,
     route_stops |-> route_stops]

RouteOptimizerOutput(max_travel_time, route_list, slack_time) ==
    [max_travel_time |-> max_travel_time, routes |-> route_list,
     slack_time |-> slack_time]

RECURSIVE SumSeq(_)
SumSeq(s) == IF s = <<>> THEN 0 ELSE Head(s) + SumSeq(Tail(s))

\* A solver solution gives every vehicle the stops it visits between its
\* start and its end, in visiting order.  Vehicles are numbered from 1 here
\* (vehicle_id + 1), as the positions of data["vehicle_capacities"] are.
\* Walk is the list of nodes the loop of lines 295-312 goes through: the
\* start of the vehicle, which is the depot, then its stops.
Walk(solution, vehicle) == <<0>> \o solution[vehicle]

\* The node of the index that follows the p-th of a walk: the next stop, or
\* the depot when the next index is the end of the vehicle.
NextNode(walk, p) == IF p < Len(walk) THEN walk[p + 1] ELSE 0

\* An arc cost that charges a route from start to end its transit.
GetArcCostForVehicleChargingEmpty(routing, walk, p) ==
    LET transit == time_callback(routing, walk[p], NextNode(walk, p))
    IN  IF p > 1 THEN transit
        ELSE IF Len(walk) > 1 THEN transit + routing.vehicle_penalty
        ELSE transit

\* routing.GetArcCostForVehicle(previous_index, index, vehicle_id) for the
\* arc that leaves the p-th index of a walk, with the arc cost evaluator and
\* the fixed costs of lines 159-163: the transit callback, plus the fixed
\* cost of the vehicle on the arc that leaves its start; a route that goes
\* from start to end at once is empty and costs 0.
GetArcCostForVehicle(routing, walk, p) ==
    LET transit == time_callback(routing, walk[p], NextNode(walk, p))
    IN  IF p > 1 THEN transit
        ELSE IF Len(walk) > 1 THEN transit + routing.vehicle_penalty
        ELSE 0

\* solution.Min(routing.GetDimensionOrDie("Time").CumulVar(index)) at the
\* p-th index of a walk (p = Len(walk) + 1 is the end): the Time dimension
\* of lines 183-189 starts at zero and has no slack, so the cumul is the sum
\* of the transits so far.
CumulTime(routing, walk, p) ==
    SumSeq([q \in 1..(p - 1) |->
               time_callback(routing, walk[q], NextNode(walk, q))])

\* A Capacity dimension that counts no demand.
CumulCapacityOfNothing(routing, walk) == 0

\* The Capacity cumul at the end of a walk (lines 166-180).
CumulCapacity(routing, walk) ==
    SumSeq([q \in 1..Len(walk) |-> routing.data.demands[walk[q]]])

Nodes(n) == 0..(n - 1)

\* The stops of a routing model: its nodes but the depot.
Stops(routing) == 1..(routing.manager.num_nodes - 1)

\* The visiting orders of some of the stops, none of them twice.
Paths(routing) ==
    { path \in UNION { [1..k -> Stops(routing)] :
                          k \in 0..Cardinality(Stops(routing)) } :
        \A p, q \in DOMAIN path : path[p] = path[q] => p = q }

\* The solutions SolveWithParameters may return for a routing model: every
\* stop is on the path of exactly one vehicle (no node is optional), and on
\* every path the Capacity cumul stays within the capacity of the vehicle
\* (lines 174-180) and the Time cumul within data["max_travel_time"] (lines
\* 183-189).
Solutions(routing) ==
    { solution \in [1..routing.manager.num_vehicles -> Paths(routing)] :
        /\ \A node \in Stops(routing) :
              Cardinality({ v \in DOMAIN solution :
                              \E p \in DOMAIN solution[v] :
                                  solution[v][p] = node }) = 1
        /\ \A v \in DOMAIN solution :
              LET walk == Walk(solution, v)
              IN  /\ CumulCapacity(routing, walk)
                        <= routing.data.vehicle_capacities[v]
                  /\ \A p \in 1..(Len(walk) + 1) :
                        /\ CumulTime(routing, walk, p) >= 0
                        /\ CumulTime(routing, walk, p)
                              <= routing.data.max_travel_time }

\* demand_callback, lines 166-169, raises on a node the demand list has no
\* entry for.
DemandCallbackFails(routing) ==
    \E node \in Nodes(routing.manager.num_nodes) :
        node \notin DOMAIN routing.data.demands

\* The net route time kept at its gross value.
NetRouteTimeWithPenalty(slf, route_time) == route_time

\* _extract_output, lines 316-317
NetRouteTime(slf, route_time) ==
    IF route_time > 0 THEN route_time - slf.vehicle_penalty ELSE route_time

\* The depot stop carrying no occupancy.
DepotStopWithoutOccupancy(route_load, route_time) ==
    RouteStop(0, 0, route_time, 0)

\* _extract_output, lines 319-324
DepotStop(route_load, route_time) == RouteStop(0, 0, route_time, route_load)

\* The head removal taking the first real stop along with the depot.
InboundStopsDroppingTwo(route_stops, depot_stop) ==
    SubSeq(route_stops, 3, Len(route_stops)) \o <<depot_stop>>

\* _extract_output, line 325: route_stops[1:] + [depot_stop]
InboundStops(route_stops, depot_stop) == Tail(route_stops) \o <<depot_stop>>

\* _extract_output, lines 290-333: the Route of one vehicle.
ExtractRoute(slf, solution, vehicle) ==
    LET data == slf.data
        routing == slf.routing
        walk == Walk(solution, vehicle)
        visited ==
            [p \in 1..Len(walk) |->
                RouteStop(walk[p], data.demands[walk[p]],
                          CumulTime(routing, walk, p), None)]
        route_load == SumSeq([p \in 1..Len(walk) |-> data.demands[walk[p]]])
        route_time ==
            NetRouteTime(slf,
                SumSeq([p \in 1..Len(walk) |->
                           GetArcCostForVehicle(routing, walk, p)]))
        route_stops ==
            IF slf.mode = INBOUND
            THEN InboundStops(visited, DepotStop(route_load, route_time))
            ELSE visited
    IN  Route(data.vehicle_capacities[vehicle], route_load, route_time,
              route_stops)

\* _extract_output: one Route per vehicle of self.data, in vehicle order.
extract_output(slf, solution) ==
    RouteOptimizerOutput(
        slf.data.max_travel_time,
        [vehicle \in 1..slf.data.num_vehicles |->
            ExtractRoute(slf, solution, vehicle)],
        slf.slack_time)

\* The no-solution output carrying the max_travel_time of the instance.
NoSolutionOutputWithTime(slf) ==
    RouteOptimizerOutput(slf.max_travel_time, <<>>, 0)

\* optimizer_solver, line 234
NoSolutionOutput(slf) == RouteOptimizerOutput(0, <<>>, 0)

\* The inputs of the model: a square time matrix with a zero diagonal and
\* different times in the two directions of every pair of stops.
InputTimeMatrix(n) ==
    [i \in Nodes(n) |-> [j \in Nodes(n) |->
        IF i = j THEN 0 ELSE 300 + 10 * i + 20 * j]]

\* One passenger at every stop but the depot.
InputDemands(n) == [i \in Nodes(n) |-> IF i = 0 THEN 0 ELSE 1]

FleetEntries == { Fleet(1, 2), Fleet(2, 1) }

InputFleets ==
    UNION { [1..k -> FleetEntries] : k \in 1..MaxFleetEntries }

RouteOptimizerInputs ==
    { [mode |-> m, time_matrix |-> InputTimeMatrix(n),
       fleet |-> f, demands |-> InputDemands(n),
       max_travel_time |-> mtt, slack_time |-> st] :
        m \in {INBOUND, OUTBOUND}, n \in 2..MaxNodes,
        f \in InputFleets, mtt \in {600, 3600}, st \in {60, 120} }

\* The fleets of the instances that are solved and extracted: up to three
\* vehicles, of equal or of different capacities, in either order.
SolveFleets ==
    { <<Fleet(1, 2)>>, <<Fleet(2, 1)>>,
      <<Fleet(1, 2), Fleet(2, 1)>>, <<Fleet(2, 1), Fleet(1, 2)>> }

SolveInputs == { inp \in RouteOptimizerInputs : inp.fleet \in SolveFleets }

\* No second caller, no lock.
SharedIdle ==
    /\ use_lock = FALSE
    /\ lock = "free"
    /\ b_pc = "data"
    /\ o_pc = "idle"
    /\ o_routing = None
    /\ o_view = None

GridIdle ==
    /\ g_pc = "idle"
    /\ self = None
    /\ g_input = None
    /\ g_i = 0
    /\ message = <<>>
    /\ extra_time = 0
    /\ extra_vehicles = None
    /\ solver_calls = <<>>
    /\ g_result = None
    /\ g_calls = 0
    /\ matrix_writes = {}
    /\ SharedIdle

GridInit ==
    /\ g_pc = "new"
    /\ self = None
    /\ g_input \in { [route_optimizer_input |-> inp,
                      vehicle_penalty |-> DefaultVehiclePenalty] :
                        inp \in RouteOptimizerInputs }
    /\ g_i = 0
    /\ message = <<>>
    /\ extra_time = 0
    /\ extra_vehicles = None
    /\ solver_calls = <<>>
    /\ g_result = None
    /\ g_calls = 0
    /\ matrix_writes = {}
    /\ SharedIdle

SolveInit ==
    /\ g_pc = "new"
    /\ self = None
    /\ g_input \in { [route_optimizer_input |-> inp,
                      vehicle_penalty |-> DefaultVehiclePenalty] :
                        inp \in SolveInputs }
    /\ g_i = 0
    /\ message = <<>>
    /\ extra_time = 0
    /\ extra_vehicles = None
    /\ solver_calls = <<>>
    /\ g_result = None
    /\ g_calls = 0
    /\ matrix_writes = {}
    /\ SharedIdle

\* Inputs that break the preconditions of the optimizer along with inputs
\* that keep them: no fleet at all, a demand list one shorter or one longer
\* than the time matrix.
BuildInputs ==
    { [mode |-> m, time_matrix |-> InputTimeMatrix(n),
       fleet |-> f, demands |-> InputDemands(d),
       max_travel_time |-> mtt, slack_time |-> st] :
        m \in {INBOUND, OUTBOUND}, n \in 2..MaxNodes,
        d \in 1..(MaxNodes + 1), f \in {<<>>} \cup SolveFleets,
        mtt \in {600, 3600}, st \in {60, 120} }

\* The vehicle_penalty arguments of the constructor: none, and the default.
VehiclePenalties == {0, DefaultVehiclePenalty}

BuildInit ==
    /\ g_pc = "new"
    /\ self = None
    /\ g_input \in { [route_optimizer_input |-> inp,
                      vehicle_penalty |-> vp] :
                        inp \in { b \in BuildInputs :
                                    PyLen(b.demands) - PyLen(b.time_matrix)
                                        \in {-1, 0, 1} },
                        vp \in VehiclePenalties }
    /\ g_i = 0
    /\ message = <<>>
    /\ extra_time = 0
    /\ extra_vehicles = None
    /\ solver_calls = <<>>
    /\ g_result = None
    /\ g_calls = 0
    /\ matrix_writes = {}
    /\ SharedIdle

\* The texts of the ValueError max() raises on an empty list, line 95: the
\* wording is the interpreter's and differs between its versions.
MaxOfEmptyTexts ==
    { "max() arg is an empty sequence",
      "max() iterable argument is empty" }

\* RouteOptimizer(route_optimizer_input=..., vehicle_penalty=...).  With no
\* vehicle in the fleet max(vehicle_capacities) of line 95 raises ValueError
\* and no instance comes to exist.
Construct ==
    /\ g_pc = "new"
    /\ IF FlattenFleet(g_input.route_optimizer_input.fleet) = <<>>
       THEN /\ g_pc' = "raised"
            /\ \E text \in MaxOfEmptyTexts :
                  g_result' = Raised("ValueError", text)
            /\ self' = self
       ELSE /\ self' = RouteOptimizerInit(g_input.route_optimizer_input,
                                          g_input.vehicle_penalty)
            /\ g_pc' = "ready"
            /\ g_result' = g_result
    /\ matrix_writes' = matrix_writes \cup {"__init__"}
    /\ UNCHANGED <<g_input, g_i, message, extra_time, extra_vehicles,
                   solver_calls, g_calls, slice_vars, route_vars,
                   matrix_vars, shared_vars>>

\* grid_search, lines 246-269: the solve of the model as it stands; a
\* solution returns at once, no solution enters _grid_search_solver
\* (lines 357-359).
GridSearch ==
    /\ g_pc = "ready"
    /\ g_calls < MaxCalls
    /\ g_calls' = g_calls + 1
    /\ \E solution \in BOOLEAN :
          /\ solver_calls' = <<SolverCall(self.routing, "baseline", 0, solution)>>
          /\ IF solution
             THEN /\ g_result' = SolvedWithoutGridSearch
                  /\ g_pc' = "ready"
                  /\ UNCHANGED <<g_i, message, extra_time, extra_vehicles>>
             ELSE /\ g_result' = None
                  /\ g_pc' = "time"
                  /\ g_i' = 1
                  /\ message' = <<>>
                  /\ extra_time' = 0
                  /\ extra_vehicles' = Fleet(0, 0)
    /\ UNCHANGED <<self, g_input, matrix_writes, slice_vars, route_vars,
                   matrix_vars, shared_vars>>

\* _grid_search_solver, lines 360-387: one iteration of the extra-time loop.
TimeAttempt ==
    /\ g_pc = "time"
    /\ g_i \in TimeRange
    /\ self' = RebuildExtraTime(self, g_i)
    /\ matrix_writes' = matrix_writes \cup {"time"}
    /\ \E solution \in BOOLEAN :
          /\ solver_calls' =
                Append(solver_calls, SolverCall(self'.routing, "time", g_i, solution))
          /\ IF solution
             THEN /\ extra_time' = ExtraTimeFound(g_i)
                  /\ message' = Append(message, MsgExtraTime(g_i))
                  /\ g_pc' = "vehicle"      \* break
                  /\ g_i' = 1
             ELSE /\ g_i' = g_i + 1
                  /\ UNCHANGED <<extra_time, message, g_pc>>
    /\ UNCHANGED <<g_input, extra_vehicles, g_result, g_calls,
                   slice_vars, route_vars,
                   matrix_vars, shared_vars>>

\* The extra-time loop runs out.
TimeLoopEnd ==
    /\ g_pc = "time"
    /\ g_i \notin TimeRange
    /\ g_pc' = "vehicle"
    /\ g_i' = 1
    /\ UNCHANGED <<self, g_input, message, extra_time, extra_vehicles,
                   solver_calls, g_result, g_calls, matrix_writes,
                   slice_vars, route_vars,
                   matrix_vars, shared_vars>>

\* _grid_search_solver, lines 389-419: one iteration of the extra-vehicle
\* loop.
VehicleAttempt ==
    /\ g_pc = "vehicle"
    /\ g_i \in VehicleRange
    /\ self' = RebuildExtraVehicles(self, g_i)
    /\ matrix_writes' = matrix_writes \cup {"vehicle"}
    /\ \E solution \in BOOLEAN :
          /\ solver_calls' =
                Append(solver_calls,
                       SolverCall(self'.routing, "vehicle", g_i, solution))
          /\ IF solution
             THEN /\ extra_vehicles' = ExtraVehiclesFound(self, g_i)
                  /\ message' = Append(message, MsgExtraVehicles(g_i))
                  /\ g_pc' = "finish"       \* break
                  /\ g_i' = 0
             ELSE /\ g_i' = g_i + 1
                  /\ UNCHANGED <<extra_vehicles, message, g_pc>>
    /\ UNCHANGED <<g_input, extra_time, g_result, g_calls,
                   slice_vars, route_vars,
                   matrix_vars, shared_vars>>

\* The extra-vehicle loop runs out.
VehicleLoopEnd ==
    /\ g_pc = "vehicle"
    /\ g_i \notin VehicleRange
    /\ g_pc' = "finish"
    /\ g_i' = 0
    /\ UNCHANGED <<self, g_input, message, extra_time, extra_vehicles,
                   solver_calls, g_result, g_calls, matrix_writes,
                   slice_vars, route_vars,
                   matrix_vars, shared_vars>>

\* The return of a call that solves the model it has just rebuilt.
GridSearchReturnResolving ==
    /\ g_pc = "finish"
    /\ self' = RebuildBaseline(self)
    /\ matrix_writes' = matrix_writes \cup {"final"}
    /\ solver_calls' = Append(solver_calls,
                              SolverCall(self'.routing, "baseline", 0, FALSE))
    /\ g_result' = GridSearchOutput(extra_time, extra_vehicles,
                                    Join(<<" or ">>, FinalMessage(message)))
    /\ g_pc' = "ready"
    /\ g_i' = 0
    /\ message' = <<>>
    /\ extra_time' = 0
    /\ extra_vehicles' = None
    /\ UNCHANGED <<g_input, g_calls, slice_vars, route_vars,
                   matrix_vars, shared_vars>>

\* _grid_search_solver, lines 421-431, and grid_search's return of its
\* value: the default message, the rebuild of the baseline model, the
\* GridSearchOutput.  The locals of the call go away.
GridSearchReturn ==
    /\ g_pc = "finish"
    /\ self' = RebuildBaseline(self)
    /\ matrix_writes' = matrix_writes \cup {"final"}
    /\ g_result' = GridSearchOutput(extra_time, extra_vehicles,
                                    Join(<<" or ">>, FinalMessage(message)))
    /\ g_pc' = "ready"
    /\ g_i' = 0
    /\ message' = <<>>
    /\ extra_time' = 0
    /\ extra_vehicles' = None
    /\ UNCHANGED <<g_input, solver_calls, g_calls, slice_vars, route_vars,
                   matrix_vars, shared_vars>>

\* The SolveWithParameters invocation of optimizer_solver that returned a
\* solution, with the paths of that solution.
SolvedCall(routing, solution) ==
    [routing |-> routing, phase |-> "optimizer_solver", i |-> 0,
     solution |-> TRUE, paths |-> solution]

\* optimizer_solver: one solve of the model as it stands.  The solver
\* answers with no solution or with any one of the solutions of the model;
\* solver_calls holds the invocation and g_result the value returned.  A
\* demand callback that raises ends the call inside the solver.
OptimizerSolver ==
    /\ g_pc = "ready"
    /\ IF DemandCallbackFails(self.routing)
       THEN /\ solver_calls' = <<SolverCall(self.routing, "optimizer_solver",
                                            0, FALSE)>>
            /\ g_result' = Raised("IndexError", "list index out of range")
            /\ g_pc' = "raised"
       ELSE /\ \/ /\ solver_calls' =
                      <<SolverCall(self.routing, "optimizer_solver", 0, FALSE)>>
                  /\ g_result' = NoSolutionOutput(self)
               \/ \E solution \in Solutions(self.routing) :
                     /\ solver_calls' =
                           <<SolvedCall(self.routing, solution)>>
                     /\ g_result' = extract_output(self, solution)
            /\ g_pc' = g_pc
    /\ UNCHANGED <<self, g_input, g_i, message, extra_time, extra_vehicles,
                   g_calls, matrix_writes, slice_vars, route_vars,
                   matrix_vars, shared_vars>>

(***************************************************************************)
(* One RouteOptimizer instance shared by two callers: a grid_search call   *)
(* and an optimizer_solver call, statement by statement                    *)
(***************************************************************************)
\* The instances the two callers share: one vehicle, a depot and one stop.
SharedInputs ==
    { inp \in RouteOptimizerInputs :
        /\ inp.fleet = <<Fleet(1, 2)>>
        /\ PyLen(inp.time_matrix) = 2
        /\ inp.max_travel_time = 600
        /\ inp.slack_time = 60 }

\* A caller may start its call: with a lock, only while nobody holds it.
MayEnter == use_lock => lock = "free"

\* The lock after the named call has taken it.
Held(call) == IF use_lock THEN call ELSE "free"

SharedInit ==
    /\ g_pc = "new"
    /\ self = None
    /\ g_input \in { [route_optimizer_input |-> inp,
                      vehicle_penalty |-> DefaultVehiclePenalty] :
                        inp \in SharedInputs }
    /\ g_i = 0
    /\ message = <<>>
    /\ extra_time = 0
    /\ extra_vehicles = None
    /\ solver_calls = <<>>
    /\ g_result = None
    /\ g_calls = 0
    /\ matrix_writes = {}
    /\ use_lock \in BOOLEAN
    /\ lock = "free"
    /\ b_pc = "data"
    /\ o_pc = "start"
    /\ o_routing = None
    /\ o_view = None

\* The arguments of the _create_data_model call of the rebuild in progress:
\* lines 364-366, 391-393 and 423.
RebuildExtraVehiclesArg ==
    IF g_pc = "vehicle" THEN g_i ELSE 0

RebuildExtraTimeArg ==
    IF g_pc = "time" THEN g_i * SecondsPerMinute ELSE 0

\* The first caller's grid_search, lines 246-269, taking the lock if the
\* callers use one.
SharedGridSearch ==
    /\ g_pc = "ready"
    /\ g_calls = 0
    /\ MayEnter
    /\ g_calls' = g_calls + 1
    /\ \E solution \in BOOLEAN :
          /\ solver_calls' = <<SolverCall(self.routing, "baseline", 0, solution)>>
          /\ IF solution
             THEN /\ g_result' = SolvedWithoutGridSearch
                  /\ g_pc' = "ready"
                  /\ lock' = "free"
                  /\ UNCHANGED <<g_i, message, extra_time, extra_vehicles>>
             ELSE /\ g_result' = None
                  /\ g_pc' = "time"
                  /\ lock' = Held("grid_search")
                  /\ g_i' = 1
                  /\ message' = <<>>
                  /\ extra_time' = 0
                  /\ extra_vehicles' = Fleet(0, 0)
    /\ UNCHANGED <<self, g_input, matrix_writes, use_lock, b_pc, o_pc,
                   o_routing, o_view, slice_vars, route_vars, matrix_vars>>

\* self.data = self._create_data_model(...) of lines 364, 391 and 423; the
\* last one comes after the default message of lines 421-422.
SharedCreateDataModel ==
    /\ g_pc \in {"time", "vehicle", "finish"}
    /\ g_pc = "time" => g_i \in TimeRange
    /\ g_pc = "vehicle" => g_i \in VehicleRange
    /\ b_pc = "data"
    /\ self' = [self EXCEPT
                  !.data = create_data_model(self, RebuildExtraVehiclesArg,
                                             RebuildExtraTimeArg),
                  !.time_matrix = AdjustTimeMatrix(self)]
    /\ matrix_writes' = matrix_writes
          \cup {IF g_pc = "finish" THEN "final" ELSE g_pc}
    /\ message' = IF g_pc = "finish" THEN FinalMessage(message) ELSE message
    /\ b_pc' = "manager"
    /\ UNCHANGED <<g_pc, g_input, g_i, extra_time, extra_vehicles,
                   solver_calls, g_result, g_calls, use_lock, lock, o_pc,
                   o_routing, o_view, slice_vars, route_vars, matrix_vars>>

\* self.manager = self._set_manager() of lines 367, 394 and 424.
SharedSetManager ==
    /\ b_pc = "manager"
    /\ self' = [self EXCEPT !.manager = set_manager(self)]
    /\ b_pc' = "routing"
    /\ UNCHANGED <<g_pc, g_input, g_i, message, extra_time, extra_vehicles,
                   solver_calls, g_result, g_calls, matrix_writes, use_lock,
                   lock, o_pc, o_routing, o_view, slice_vars, route_vars,
                   matrix_vars>>

\* self.routing = self._set_routing(vehicle_penalty=self.vehicle_penalty)
\* of lines 368, 395 and 425.
SharedSetRouting ==
    /\ b_pc = "routing"
    /\ self' = [self EXCEPT
                  !.routing = set_routing(self, self.vehicle_penalty,
                                          DefaultSlackTime)]
    /\ b_pc' = "solve"
    /\ UNCHANGED <<g_pc, g_input, g_i, message, extra_time, extra_vehicles,
                   solver_calls, g_result, g_calls, matrix_writes, use_lock,
                   lock, o_pc, o_routing, o_view, slice_vars, route_vars,
                   matrix_vars>>

\* Lines 370-387: the solve of a time attempt and what follows from it.
SharedTimeSolve ==
    /\ g_pc = "time"
    /\ b_pc = "solve"
    /\ b_pc' = "data"
    /\ \E solution \in BOOLEAN :
          /\ solver_calls' =
                Append(solver_calls, SolverCall(self.routing, "time", g_i, solution))
          /\ IF solution
             THEN /\ extra_time' = ExtraTimeFound(g_i)
                  /\ message' = Append(message, MsgExtraTime(g_i))
                  /\ g_pc' = "vehicle"
                  /\ g_i' = 1
             ELSE /\ g_i' = g_i + 1
                  /\ UNCHANGED <<extra_time, message, g_pc>>
    /\ UNCHANGED <<self, g_input, extra_vehicles, g_result, g_calls,
                   matrix_writes, use_lock, lock, o_pc, o_routing, o_view,
                   slice_vars, route_vars, matrix_vars>>

\* Lines 397-419: the solve of a vehicle attempt and what follows from it.
SharedVehicleSolve ==
    /\ g_pc = "vehicle"
    /\ b_pc = "solve"
    /\ b_pc' = "data"
    /\ \E solution \in BOOLEAN :
          /\ solver_calls' =
                Append(solver_calls,
                       SolverCall(self.routing, "vehicle", g_i, solution))
          /\ IF solution
             THEN /\ extra_vehicles' = ExtraVehiclesFound(self, g_i)
                  /\ message' = Append(message, MsgExtraVehicles(g_i))
                  /\ g_pc' = "finish"
                  /\ g_i' = 0
             ELSE /\ g_i' = g_i + 1
                  /\ UNCHANGED <<extra_vehicles, message, g_pc>>
    /\ UNCHANGED <<self, g_input, extra_time, g_result, g_calls,
                   matrix_writes, use_lock, lock, o_pc, o_routing, o_view,
                   slice_vars, route_vars, matrix_vars>>

\* Lines 427-431 after the final rebuild: grid_search returns and gives the
\* lock back.
SharedGridSearchReturn ==
    /\ g_pc = "finish"
    /\ b_pc = "solve"
    /\ g_result' = GridSearchOutput(extra_time, extra_vehicles,
                                    Join(<<" or ">>, message))
    /\ g_pc' = "ready"
    /\ b_pc' = "data"
    /\ lock' = "free"
    /\ g_i' = 0
    /\ message' = <<>>
    /\ extra_time' = 0
    /\ extra_vehicles' = None
    /\ UNCHANGED <<self, g_input, solver_calls, g_calls, matrix_writes,
                   use_lock, o_pc, o_routing, o_view, slice_vars, route_vars,
                   matrix_vars>>

\* The second caller's optimizer_solver up to its solve, line 227: the
\* solver runs on the routing model self.routing names at that moment.
\* Without a solution the call returns at once.
SharedSolverSolve ==
    /\ o_pc = "start"
    /\ g_pc \in {"ready", "time", "vehicle", "finish"}
    /\ MayEnter
    /\ o_routing' = self.routing
    /\ \E solution \in BOOLEAN :
          IF solution
          THEN o_pc' = "solved" /\ lock' = Held("optimizer_solver")
          ELSE o_pc' = "done" /\ lock' = "free"
    /\ UNCHANGED <<g_pc, self, g_input, g_i, message, extra_time,
                   extra_vehicles, solver_calls, g_result, g_calls,
                   matrix_writes, use_lock, b_pc, o_view, slice_vars,
                   route_vars, matrix_vars>>

\* The second caller's _extract_output, line 284: data = self.data, the
\* data dictionary self names at that moment.
SharedExtractData ==
    /\ o_pc = "solved"
    /\ o_view' = [data |-> self.data]
    /\ o_pc' = "data"
    /\ UNCHANGED <<g_pc, self, g_input, g_i, message, extra_time,
                   extra_vehicles, solver_calls, g_result, g_calls,
                   matrix_writes, use_lock, lock, b_pc, o_routing,
                   slice_vars, route_vars, matrix_vars>>

\* Line 285: manager = self.manager.
SharedExtractManager ==
    /\ o_pc = "data"
    /\ o_view' = [data |-> o_view.data, manager |-> self.manager]
    /\ o_pc' = "manager"
    /\ UNCHANGED <<g_pc, self, g_input, g_i, message, extra_time,
                   extra_vehicles, solver_calls, g_result, g_calls,
                   matrix_writes, use_lock, lock, b_pc, o_routing,
                   slice_vars, route_vars, matrix_vars>>

\* Line 286: routing = self.routing.  The rest of _extract_output walks
\* the solution on these three locals, and the call returns.
SharedExtractRouting ==
    /\ o_pc = "manager"
    /\ o_view' = [data |-> o_view.data, manager |-> o_view.manager,
                  routing |-> self.routing]
    /\ o_pc' = "done"
    /\ lock' = "free"
    /\ UNCHANGED <<g_pc, self, g_input, g_i, message, extra_time,
                   extra_vehicles, solver_calls, g_result, g_calls,
                   matrix_writes, use_lock, b_pc, o_routing, slice_vars,
                   route_vars, matrix_vars>>

(***************************************************************************)
(* Specifications                                                          *)
(***************************************************************************)
SliceNext == SliceMatrix

RouteNext ==
    GetRouteStart \/ GetRouteRequest \/ GetRouteAnswer \/ GetRouteReturn

GridSteps ==
    \/ TimeAttempt
    \/ TimeLoopEnd
    \/ VehicleAttempt
    \/ VehicleLoopEnd
    \/ GridSearchReturn

GridNext == Construct \/ GridSearch \/ GridSteps

InitSlice == SliceInit /\ CallIdle /\ RouteIdle /\ MatrixIdle /\ GridIdle

InitRoute == SliceIdle /\ CallIdle /\ RouteInit /\ MatrixIdle /\ GridIdle

InitGrid == SliceIdle /\ CallIdle /\ RouteIdle /\ MatrixIdle /\ GridInit

MatrixNext ==
    GetMatrixStart \/ GetMatrixRequest \/ GetMatrixAnswer \/ GetMatrixReturn

InitMatrix == SliceIdle /\ CallIdle /\ RouteIdle /\ MatrixInit /\ GridIdle

SpecMatrix == InitMatrix /\ [][MatrixNext]_vars

SharedNext ==
    \/ Construct
    \/ SharedGridSearch
    \/ SharedCreateDataModel
    \/ SharedSetManager
    \/ SharedSetRouting
    \/ SharedTimeSolve
    \/ TimeLoopEnd
    \/ SharedVehicleSolve
    \/ VehicleLoopEnd
    \/ SharedGridSearchReturn
    \/ SharedSolverSolve
    \/ SharedExtractData
    \/ SharedExtractManager
    \/ SharedExtractRouting

InitShared == SliceIdle /\ CallIdle /\ RouteIdle /\ MatrixIdle /\ SharedInit

SpecShared == InitShared /\ [][SharedNext]_vars

CallNext == SliceEnter \/ SliceReturn

InitCall == SliceIdle /\ CallInit /\ RouteIdle /\ MatrixIdle /\ GridIdle

\* The interpreter keeps running the call it has started.
SpecCall == InitCall /\ [][CallNext]_vars /\ WF_vars(CallNext)

SpecSlice == InitSlice /\ [][SliceNext]_vars

SpecRoute == InitRoute /\ [][RouteNext]_vars

SpecGrid == InitGrid /\ [][GridNext]_vars

\* One instance on which grid_search and optimizer_solver are called in any
\* order, one call at a time.
SolveNext == Construct \/ GridSearch \/ GridSteps \/ OptimizerSolver

InitSolve == SliceIdle /\ CallIdle /\ RouteIdle /\ MatrixIdle /\ SolveInit

\* Construction and a first solve, for inputs good and bad.
BuildNext == Construct \/ OptimizerSolver

InitBuild == SliceIdle /\ CallIdle /\ RouteIdle /\ MatrixIdle /\ BuildInit

SpecBuild == InitBuild /\ [][BuildNext]_vars

SpecSolve == InitSolve /\ [][SolveNext]_vars

(***************************************************************************)
(* Properties of slice_matrix (SpecSlice)                                  *)
(***************************************************************************)
\* The cells (row, column) of a rectangle [start_row, end_row) x
\* [start_col, end_col).
Cells(r) ==
    (r.start_row..(r.end_row - 1)) \X (r.start_col..(r.end_col - 1))

ElementCount(r) == (r.end_row - r.start_row) * (r.end_col - r.start_col)

SliceInput ==
    Rect(s_args.start_row, s_args.end_row, s_args.start_col, s_args.end_col)

\* C1: for every rectangle with end >= start on both axes and every
\* max_elements >= 1, the rectangles slice_matrix returns tile the input
\* rectangle: every cell of the input lies in exactly one returned
\* rectangle, and no returned rectangle has a cell outside the input.
C1_SliceTilesInput ==
    s_pc = "done" =>
        /\ \A cell \in Cells(SliceInput) :
              Cardinality({ k \in 1..Len(s_result) :
                              cell \in Cells(s_result[k]) }) = 1
        /\ \A k \in 1..Len(s_result) :
              Cells(s_result[k]) \subseteq Cells(SliceInput)

\* A call that bisected both axes has returned.
C1_Witness ==
    /\ s_pc = "done"
    /\ Len(s_result) >= 4
    /\ \E j, k \in 1..Len(s_result) :
          /\ s_result[j].start_row # s_result[k].start_row
          /\ s_result[j].start_col # s_result[k].start_col

\* C2: for every input rectangle and every max_elements >= 1, each
\* rectangle slice_matrix returns has at most max_elements cells.
C2_SliceWithinMaxElements ==
    s_pc = "done" =>
        \A k \in 1..Len(s_result) :
            ElementCount(s_result[k]) <= s_args.max_elements

\* A call that had to bisect has returned a rectangle that fills the cap.
C2_Witness ==
    /\ s_pc = "done"
    /\ Len(s_result) >= 2
    /\ s_args.max_elements >= 2
    /\ \E k \in 1..Len(s_result) :
          ElementCount(s_result[k]) = s_args.max_elements

(***************************************************************************)
(* Properties of GoogleMaps.get_route (SpecRoute)                          *)
(***************************************************************************)
\* C3: for every ordered stop list of L >= 2 stops and every
\* max_route_stops >= 2, every window get_route hands to
\* _prepare_request_route has at most max_route_stops stops, so the
\* 'Maximum number of stops' check never rejects a window and get_route
\* does not raise.
C3_WindowsWithinMaxRouteStops ==
    (Len(r_stops) >= 2 /\ r_pc # "idle" /\ r_self.max_route_stops >= 2) =>
        /\ \A k \in 1..Len(requests) :
              Len(requests[k]) <= r_self.max_route_stops
        /\ ~(r_pc = "raised" /\ r_result.raised = "InvalidRequestFormat")

\* The windows of a run stitched together: the first window, then every
\* later window without its first stop.
RECURSIVE StitchWindows(_)
StitchWindows(ws) ==
    IF ws = <<>> THEN <<>>
    ELSE IF Len(ws) = 1 THEN ws[1]
    ELSE StitchWindows(SubSeq(ws, 1, Len(ws) - 1)) \o Tail(ws[Len(ws)])

\* C4: in every run of get_route on L >= 2 stops that completes, the
\* windows requested start at the first stop, end at the last stop, each
\* window after the first begins at the last stop of the previous window,
\* and the windows stitched together (every window but the first without
\* its first stop) are the original stop list; each window was sent to the
\* API as one request visiting the window's stops in order.
C4_WindowsChainAndReconstruct ==
    (r_pc = "done" /\ Len(r_stops) >= 2) =>
        /\ Len(requests) >= 1
        /\ requests[1][1] = r_stops[1]
        /\ requests[Len(requests)][Len(requests[Len(requests)])]
              = r_stops[Len(r_stops)]
        /\ \A k \in 2..Len(requests) :
              requests[k][1] = requests[k - 1][Len(requests[k - 1])]
        /\ StitchWindows(requests) = r_stops
        /\ Len(api_calls) = Len(requests)
        /\ \A k \in 1..Len(requests) :
              RequestPlaces(api_calls[k]) = prepare_stops(requests[k])

\* A run over several windows has completed.
C4_Witness ==
    /\ r_pc = "done"
    /\ Len(requests) >= 2
    /\ Len(r_stops) > r_self.max_route_stops
    /\ Len(r_result.times) = Len(r_stops) - 1

(***************************************************************************)
(* Properties of RouteOptimizer.grid_search (SpecGrid)                     *)
(***************************************************************************)
\* The solver invocations of the current call made by one of its phases.
CallsOf(phase) == SelectSeq(solver_calls, LAMBDA c : c.phase = phase)

\* grid_search has returned, and its value and invocations are at hand.
Returned == g_pc = "ready" /\ g_calls >= 1

\* grid_search has returned from _grid_search_solver.
ReturnedFromEscalation == Returned /\ ~solver_calls[1].solution

InGridSearch == g_pc \in {"time", "vehicle", "finish"}

BaseCapacities == FlattenFleet(self.fleet)

\* The statements a started call still has to run, at most: one per
\* remaining loop iteration, one per loop exit, one for the return.
StepsLeft ==
    LET vehicle_phase(i) == (IterMaxExtraVehicle + 1 - i) + 2
    IN  CASE g_pc = "time" ->
                (IterMaxExtraTime + 1 - g_i) + 1 + vehicle_phase(1)
          [] g_pc = "vehicle" -> vehicle_phase(g_i)
          [] g_pc = "finish" -> 1
          [] OTHER -> 0

\* C5: whatever the solver answers, grid_search makes at most
\* 2 * max_iters + 1 solver invocations (7 with the default cap of 3 per
\* phase) and terminates: a started call can always take its next step,
\* every step leaves strictly fewer steps to run, and what the call returns
\* is a GridSearchOutput, never None.
C5_GridSearchBoundedAndTerminates ==
    /\ [](/\ Len(solver_calls) <= IterMaxExtraTime + IterMaxExtraVehicle + 1
          /\ Len(solver_calls) <= 2 * IterMaxExtraTime + 1
          /\ StepsLeft >= 0
          /\ InGridSearch => ENABLED GridSteps
          /\ Returned =>
                /\ g_result # None
                /\ DOMAIN g_result = {"extra_time", "extra_vehicles", "message"})
    /\ [][InGridSearch => StepsLeft' < StepsLeft]_vars

\* A call has returned after every attempt of both phases failed.
C5_Witness ==
    /\ Returned
    /\ Len(solver_calls) = 2 * IterMaxExtraTime + 1
    /\ \A k \in 1..Len(solver_calls) : ~solver_calls[k].solution

\* C6: in every model handed to the solver, the transit cost of every arc
\* (from, to) is time_matrix[from][to] + slack_time with the slack_time of
\* the RouteOptimizerInput, so every depot-adjusted arc costs exactly 0.
C6_TransitCostUsesInputSlackTime ==
    \A k \in 1..Len(solver_calls) :
        LET routing == solver_calls[k].routing
            tm == routing.data.time_matrix
        IN  \A from_node \in DOMAIN tm : \A to_node \in DOMAIN tm :
               /\ time_callback(routing, from_node, to_node)
                     = tm[from_node][to_node]
                       + g_input.route_optimizer_input.slack_time
               /\ (IF self.mode = INBOUND THEN from_node = 0 ELSE to_node = 0)
                     => time_callback(routing, from_node, to_node) = 0

\* C7: after a failed baseline solve the time phase tries
\* max_travel_time + 60 * i for i = 1, 2, ... in increasing order on the
\* original fleet and stops at the first success; the returned extra_time
\* is 60 * i for that i, and 0 when none of the max_iters attempts succeeds.
C7_TimeEscalationFirstSuccess ==
    LET T == CallsOf("time")
    IN  /\ Len(T) <= IterMaxExtraTime
        /\ \A k \in 1..Len(T) :
              /\ T[k].i = k
              /\ T[k].routing.data.max_travel_time
                    = g_input.route_optimizer_input.max_travel_time + 60 * k
              /\ T[k].routing.data.vehicle_capacities = BaseCapacities
              /\ T[k].routing.data.num_vehicles = Len(BaseCapacities)
              /\ T[k].routing.manager.num_vehicles = Len(BaseCapacities)
              /\ k < Len(T) => ~T[k].solution
        /\ ReturnedFromEscalation =>
              /\ Len(T) >= 1
              /\ IF T[Len(T)].solution
                 THEN g_result.extra_time = 60 * Len(T)
                 ELSE Len(T) = IterMaxExtraTime /\ g_result.extra_time = 0

\* A call has returned whose second time attempt was the first to succeed.
C7_Witness ==
    /\ ReturnedFromEscalation
    /\ Len(CallsOf("time")) = 2
    /\ g_result.extra_time = 120

\* C8: the vehicle phase runs whether or not the time phase found a
\* solution; its attempts use the original max_travel_time and
\* extra_vehicles = i for i = 1, 2, ... in increasing order, each extra
\* vehicle with the largest configured capacity; it stops at the first
\* success and returns Fleet(i, largest capacity) for that i; and no time
\* attempt carries extra vehicles.
C8_VehicleEscalationIndependent ==
    LET V == CallsOf("vehicle")
        T == CallsOf("time")
        max_capacity == PyMax(BaseCapacities)
    IN  /\ Len(V) <= IterMaxExtraVehicle
        /\ \A k \in 1..Len(V) :
              /\ V[k].i = k
              /\ V[k].routing.data.max_travel_time
                    = g_input.route_optimizer_input.max_travel_time
              /\ V[k].routing.data.vehicle_capacities
                    = BaseCapacities \o [j \in 1..k |-> max_capacity]
              /\ V[k].routing.data.num_vehicles = Len(BaseCapacities) + k
              /\ V[k].routing.manager.num_vehicles = Len(BaseCapacities) + k
              /\ k < Len(V) => ~V[k].solution
        /\ \A k \in 1..Len(T) :
              T[k].routing.data.num_vehicles = Len(BaseCapacities)
        /\ ReturnedFromEscalation =>
              /\ Len(V) >= 1
              /\ IF V[Len(V)].solution
                 THEN g_result.extra_vehicles = Fleet(Len(V), max_capacity)
                 ELSE /\ Len(V) = IterMaxExtraVehicle
                      /\ g_result.extra_vehicles.number_of_vehicles = 0

\* A call has returned in which the time phase found a solution and the
\* vehicle phase, run all the same, found its own at its second attempt.
C8_Witness ==
    /\ ReturnedFromEscalation
    /\ g_result.extra_time > 0
    /\ g_result.extra_vehicles.number_of_vehicles = 2
    /\ Len(FlattenFleet(self.fleet)) >= 2

\* C9: when the first solve of grid_search succeeds, the call returns at
\* once with extra_time 0 and no extra vehicles after exactly one solver
\* invocation, and leaves the optimizer's attributes (data, manager,
\* routing and the rest) as they were.
C9_SolvedAtOnceLeavesStateAlone ==
    [][(g_pc = "ready" /\ g_calls' = g_calls + 1 /\ solver_calls'[1].solution)
        => /\ g_pc' = "ready"
           /\ g_result'.extra_time = 0
           /\ g_result'.extra_vehicles.number_of_vehicles = 0
           /\ g_result'.message = MsgWithoutGridSearch
           /\ Len(solver_calls') = 1
           /\ self' = self]_vars

\* A call has returned after its first solve succeeded.
C9_Witness ==
    /\ Returned
    /\ Len(solver_calls) = 1
    /\ solver_calls[1].solution
    /\ g_result.message = MsgWithoutGridSearch

AllAttemptsFailed ==
    /\ Len(solver_calls) = 1 + IterMaxExtraTime + IterMaxExtraVehicle
    /\ \A k \in 1..Len(solver_calls) : ~solver_calls[k].solution

\* C10: when the baseline solve and every attempt of both phases fail,
\* grid_search returns extra_time 0, no extra vehicles and the 'No solution
\* found with extra vehicles or extra time.' message; on the escalation
\* path that message is returned exactly when both extras are zero, which
\* is exactly when every attempt failed.
C10_NoSolutionMessage ==
    ReturnedFromEscalation =>
        /\ AllAttemptsFailed =>
              /\ g_result.extra_time = 0
              /\ g_result.extra_vehicles.number_of_vehicles = 0
              /\ g_result.message = MsgNoSolution
        /\ (g_result.message = MsgNoSolution)
              <=> (/\ g_result.extra_time = 0
                   /\ g_result.extra_vehicles.number_of_vehicles = 0)
        /\ (g_result.message = MsgNoSolution) <=> AllAttemptsFailed

\* A call has returned with the no-solution message.
C10_Witness ==
    /\ ReturnedFromEscalation
    /\ AllAttemptsFailed
    /\ g_result.message = MsgNoSolution

\* A call has returned whose baseline solve failed and whose first vehicle
\* attempt, on the model built with one extra vehicle, was solved.
FirstExtraVehicleSolved ==
    /\ ReturnedFromEscalation
    /\ Len(CallsOf("vehicle")) >= 1
    /\ CallsOf("vehicle")[1].solution
    /\ CallsOf("vehicle")[1].routing.data.num_vehicles
          = Len(BaseCapacities) + 1

\* C11 (as stated): for every input whose baseline model is unsolvable and
\* whose model with one extra vehicle is solvable, grid_search returns
\* extra_vehicles.number_of_vehicles = 1 and extra_time = 0.
C11_OneExtraVehicleAndNoExtraTime ==
    FirstExtraVehicleSolved =>
        /\ g_result.extra_vehicles.number_of_vehicles = 1
        /\ g_result.extra_time = 0

\* C11 (amended): for every such input grid_search returns
\* extra_vehicles.number_of_vehicles = 1; extra_time is 0 exactly when
\* none of the time attempts, which run first and on their own, was solved,
\* and 60 * i for the first solved attempt i otherwise.
C11_OneExtraVehicleWhateverTheTime ==
    FirstExtraVehicleSolved =>
        LET T == CallsOf("time")
        IN  /\ g_result.extra_vehicles.number_of_vehicles = 1
            /\ g_result.extra_vehicles.capacity = PyMax(BaseCapacities)
            /\ Len(CallsOf("vehicle")) = 1
            /\ (g_result.extra_time = 0)
                  <=> (\A k \in 1..Len(T) : ~T[k].solution)
            /\ \A k \in 1..Len(T) :
                  T[k].solution => g_result.extra_time = 60 * k

\* A call has returned with one extra vehicle and no extra time: every time
\* attempt failed and the first vehicle attempt was solved.
C11_Witness ==
    /\ FirstExtraVehicleSolved
    /\ Len(CallsOf("time")) = IterMaxExtraTime
    /\ \A k \in 1..IterMaxExtraTime : ~CallsOf("time")[k].solution
    /\ g_result.extra_vehicles.number_of_vehicles = 1
    /\ g_result.extra_time = 0

(***************************************************************************)
(* Properties of optimizer_solver and _extract_output (SpecSolve)          *)
(***************************************************************************)
\* The last call on the instance was optimizer_solver and it has returned.
SolverReturned ==
    /\ g_pc = "ready"
    /\ Len(solver_calls) = 1
    /\ solver_calls[1].phase = "optimizer_solver"

\* optimizer_solver has returned the output of a solution.
SolvedOutput == SolverReturned /\ solver_calls[1].solution

\* C12: whenever the solver reports no solution, optimizer_solver raises
\* nothing and returns an output with routes = [] and max_travel_time = 0;
\* whenever the solver reports a solution, the output has a non-empty list
\* of routes.
C12_NoSolutionIsAnEmptyOutput ==
    /\ g_pc # "raised"
    /\ SolverReturned =>
          /\ ~IsRaised(g_result)
          /\ DOMAIN g_result = {"max_travel_time", "routes", "slack_time"}
          /\ IF solver_calls[1].solution
             THEN g_result.routes # <<>>
             ELSE g_result.routes = <<>> /\ g_result.max_travel_time = 0

\* optimizer_solver has returned after the solver reported no solution on a
\* model none of whose solutions fits in max_travel_time.
C12_Witness ==
    /\ SolverReturned
    /\ ~solver_calls[1].solution
    /\ Solutions(self.routing) = {}
    /\ g_result.routes = <<>>

\* C13: after any sequence of grid_search and optimizer_solver calls on one
\* instance, every solved output of optimizer_solver has exactly one Route
\* per configured vehicle and none for an escalation vehicle, route k
\* carries the capacity of the k-th vehicle of the flattened fleet, and the
\* max_travel_time of the output is that of the input, with no extra time.
C13_OneRoutePerConfiguredVehicle ==
    SolvedOutput =>
        LET input == g_input.route_optimizer_input
            configured == FlattenFleet(input.fleet)
        IN  /\ Len(g_result.routes) = Len(configured)
            /\ Len(configured)
                  = SumSeq([e \in DOMAIN input.fleet |->
                               input.fleet[e].number_of_vehicles])
            /\ \A k \in DOMAIN g_result.routes :
                  g_result.routes[k].vehicle_capacity = configured[k]
            /\ g_result.max_travel_time = input.max_travel_time

\* optimizer_solver has returned a solved output of three routes, one of
\* them unused, on an instance that an escalating grid_search has rebuilt.
C13_Witness ==
    /\ SolvedOutput
    /\ g_calls >= 1
    /\ self.routing.slack_time # self.slack_time
    /\ Len(g_result.routes) = 3
    /\ \E k \in DOMAIN g_result.routes :
          Len(g_result.routes[k].route_stops) = 1

\* The sum of stop_demand over the route_stops of a Route.
StopDemand(route) ==
    SumSeq([p \in DOMAIN route.route_stops |->
               route.route_stops[p].stop_demand])

\* C14: in every solved output, in both modes, the sum of stop_demand over
\* the route_stops of every Route is at most the vehicle_capacity of that
\* Route, the solver honouring the Capacity dimension it was given.
C14_StopDemandWithinCapacity ==
    SolvedOutput =>
        \A k \in DOMAIN g_result.routes :
            StopDemand(g_result.routes[k])
                <= g_result.routes[k].vehicle_capacity

\* An INBOUND solved output with a vehicle filled to its capacity of two by
\* two stops.
C14_Witness ==
    /\ SolvedOutput
    /\ self.mode = INBOUND
    /\ \E k \in DOMAIN g_result.routes :
          /\ g_result.routes[k].vehicle_capacity = 2
          /\ StopDemand(g_result.routes[k]) = 2
          /\ Len(g_result.routes[k].route_stops) = 3

\* The places (route, position) of a solved output that hold a stop_id.
PlacesOf(stop_id) ==
    { place \in (DOMAIN g_result.routes) \X (1..PyLen(self.demands)) :
        /\ place[2] \in DOMAIN g_result.routes[place[1]].route_stops
        /\ g_result.routes[place[1]].route_stops[place[2]].stop_id = stop_id }

\* C15: in every solved output, in both modes, every stop index but the
\* depot's is in exactly one route and exactly once in its route_stops (the
\* INBOUND head removal drops no real stop), so the demand served by all
\* routes together is the sum of the demand vector.
C15_EveryStopServedOnce ==
    SolvedOutput =>
        /\ \A node \in 1..(PyLen(self.demands) - 1) :
              Cardinality(PlacesOf(node)) = 1
        /\ SumSeq([k \in DOMAIN g_result.routes |->
                      StopDemand(g_result.routes[k])])
              = SumSeq([i \in 1..PyLen(self.demands) |-> self.demands[i - 1]])

\* An INBOUND solved output in which one vehicle serves two stops and
\* another none.
C15_Witness ==
    /\ SolvedOutput
    /\ self.mode = INBOUND
    /\ PyLen(self.demands) = 3
    /\ \E k \in DOMAIN g_result.routes : StopDemand(g_result.routes[k]) = 2
    /\ \E k \in DOMAIN g_result.routes : StopDemand(g_result.routes[k]) = 0

\* The stop_id of the route_stops of a Route, in order.
StopIds(route) ==
    [p \in DOMAIN route.route_stops |-> route.route_stops[p].stop_id]

\* The travel time of a path on a routing model: the transit costs of its
\* arcs from the depot, through its stops, to the depot; nothing for a
\* vehicle that stays at the depot.
TravelTime(routing, path) ==
    IF path = <<>> THEN 0
    ELSE CumulTime(routing, <<0>> \o path, Len(path) + 2)

\* C16: in every solved output, OUTBOUND, the depot (stop_id 0) is the first
\* stop of every route and the other stops follow in the solver's visiting
\* order; INBOUND, the depot the solver visits first is removed from the
\* head and a depot stop (stop_id 0, stop_demand 0) is the last stop of
\* every route, with vehicle_occupancy the total load of the route and
\* travel_time its net travel time, the other stops in the solver's
\* visiting order.
C16_DepotPlacedByMode ==
    SolvedOutput =>
        \A k \in DOMAIN g_result.routes :
            LET route == g_result.routes[k]
                path == solver_calls[1].paths[k]
                last == route.route_stops[Len(route.route_stops)]
            IN  IF self.mode = OUTBOUND
                THEN StopIds(route) = <<0>> \o path
                ELSE /\ StopIds(route) = path \o <<0>>
                     /\ last.stop_demand = 0
                     /\ last.vehicle_occupancy
                           = SumSeq([p \in DOMAIN path |->
                                        self.demands[path[p]]])
                     /\ last.vehicle_occupancy = route.vehicle_travel_occupancy
                     /\ last.travel_time = route.vehicle_travel_time
                     /\ last.travel_time
                           = TravelTime(self.routing, path)

\* An INBOUND solved output with a route of two stops and then the depot,
\* which carries the load of two and the time of the way.
C16_Witness ==
    /\ SolvedOutput
    /\ self.mode = INBOUND
    /\ \E k \in DOMAIN g_result.routes :
          LET route == g_result.routes[k]
          IN  /\ StopIds(route) = <<2, 1, 0>>
              /\ route.route_stops[3].vehicle_occupancy = 2
              /\ route.route_stops[3].travel_time > 0

(***************************************************************************)
(* Properties of the model builder (SpecGrid)                              *)
(***************************************************************************)
\* C17: after construction, in INBOUND mode time_matrix[0][j] = -slack_time
\* for every column j, and in OUTBOUND mode time_matrix[i][0] = -slack_time
\* for every row i, with the slack_time of the input.
C17_DepotAxisIsMinusSlackTime ==
    g_pc \notin {"idle", "new"} =>
        LET slack_time == g_input.route_optimizer_input.slack_time
            n == PyLen(g_input.route_optimizer_input.time_matrix)
        IN  \A tm \in {self.time_matrix, self.data.time_matrix} :
                /\ DOMAIN tm = Nodes(n)
                /\ IF self.mode = INBOUND
                   THEN \A j \in Nodes(n) : tm[0][j] = 0 - slack_time
                   ELSE \A i \in Nodes(n) : tm[i][0] = 0 - slack_time

\* An INBOUND instance of three nodes has just been constructed: its depot
\* row is -60 and the way from stop 2 to the depot is as it was given.
C17_Witness ==
    /\ g_pc = "ready"
    /\ g_calls = 0
    /\ self.mode = INBOUND
    /\ self.time_matrix[0] = [j \in Nodes(3) |-> 0 - 60]
    /\ self.time_matrix[2][0] = g_input.route_optimizer_input.time_matrix[2][0]

(***************************************************************************)
(* Properties of get_route's request checks (SpecRoute)                    *)
(***************************************************************************)
\* A finished get_route call whose stop list has fewer than two stops, or
\* one of whose windows has more stops than max_route_stops.
BadRouteRequest ==
    /\ r_pc \in {"done", "raised"}
    /\ \/ Len(r_stops) < 2
       \/ \E k \in 1..Len(requests) :
             Len(requests[k]) > r_self.max_route_stops

\* C18: a route request with fewer than two stops, or a window with more
\* stops than the provider allows, ends in InvalidRequestFormat raised
\* before any call to the routing API for it; get_route never returns a
\* route for such a request.
C18_BadRouteRequestRaises ==
    BadRouteRequest =>
        /\ r_pc = "raised"
        /\ r_result.raised = "InvalidRequestFormat"
        /\ Len(r_stops) < 2 => api_calls = <<>>
        /\ \A k \in 1..Len(api_calls) :
              Len(RequestPlaces(api_calls[k])) <= r_self.max_route_stops

(***************************************************************************)
(* Properties of construction on bad inputs (SpecBuild)                    *)
(***************************************************************************)
\* The input has no fleet, or a demand list whose length is not the
\* dimension of the time matrix.
InvalidInput ==
    \/ g_input.route_optimizer_input.fleet = <<>>
    \/ PyLen(g_input.route_optimizer_input.demands)
          # PyLen(g_input.route_optimizer_input.time_matrix)

\* C19: an input with a zero-length fleet, or with a demand vector whose
\* length differs from the dimension of the time matrix, is rejected with
\* an error during construction, before any solver call: no instance comes
\* to exist, the solver is never invoked and no solver callback fails.
C19_InvalidInputRejectedAtBuild ==
    InvalidInput =>
        /\ g_pc \in {"new", "raised"}
        /\ self = None
        /\ solver_calls = <<>>

(***************************************************************************)
(* Properties of the last step of grid search (SpecGrid)                   *)
(***************************************************************************)
\* A model with no extra vehicle and no extra time: the configured fleet
\* and the max_travel_time of the input.
IsBaselineModel(data) ==
    /\ data.vehicle_capacities = BaseCapacities
    /\ data.num_vehicles = Len(BaseCapacities)
    /\ data.max_travel_time = g_input.route_optimizer_input.max_travel_time

\* The data, manager and routing the instance holds are built with no
\* extras.
BaselineLeftBehind ==
    /\ IsBaselineModel(self.data)
    /\ self.manager = set_manager(self)
    /\ self.routing.data = self.data
    /\ self.routing.manager = self.manager

\* C20 (as stated): on the escalation path the last step of grid search
\* rebuilds the baseline model and solves it again: the last solver
\* invocation before grid_search returns comes after the last escalation
\* attempt and is on the baseline model, and the state left behind is the
\* baseline one.
C20_LastStepSolvesBaseline ==
    ReturnedFromEscalation =>
        LET last == solver_calls[Len(solver_calls)]
        IN  /\ Len(solver_calls) >= 2
            /\ last.phase \notin {"time", "vehicle"}
            /\ IsBaselineModel(last.routing.data)
            /\ BaselineLeftBehind

\* C20 (amended): on the escalation path the last step of grid search
\* rebuilds the baseline model and does not solve it: the last solver
\* invocation before grid_search returns is the last escalation attempt, on
\* a model with extra vehicles, and the data, manager and routing left
\* behind are built with no extra vehicles and no extra time.
C20_LastStepRebuildsBaseline ==
    ReturnedFromEscalation =>
        LET last == solver_calls[Len(solver_calls)]
        IN  /\ last.phase = "vehicle"
            /\ last.routing.data.num_vehicles > Len(BaseCapacities)
            /\ \A k \in 2..Len(solver_calls) :
                  solver_calls[k].phase \in {"time", "vehicle"}
            /\ self.routing # last.routing
            /\ BaselineLeftBehind

\* A call has returned from the escalation path after a vehicle attempt
\* with two extra vehicles, and the instance holds the configured fleet.
C20_Witness ==
    /\ ReturnedFromEscalation
    /\ solver_calls[Len(solver_calls)].routing.data.num_vehicles
          = Len(BaseCapacities) + 2
    /\ self.data.num_vehicles = Len(BaseCapacities)

(***************************************************************************)
(* Properties of the depot adjustment over rebuilds (SpecGrid)             *)
(***************************************************************************)
\* C21: the depot adjustment of the time matrix is applied
\* exactly once per input: construction performs it, and no escalation
\* retry and no final rebuild performs it again.
C21_AdjustedAtConstructionOnly ==
    g_pc \notin {"idle", "new"} => matrix_writes = {"__init__"}

(***************************************************************************)
(* Properties of the travel time of a route (SpecBuild)                    *)
(***************************************************************************)
\* The arcs a vehicle traverses on a path: from the depot to its first
\* stop, from stop to stop, from its last stop to the depot.
TraversedArcs(path) ==
    [p \in 1..(Len(path) + 1) |->
        <<IF p = 1 THEN 0 ELSE path[p - 1],
          IF p = Len(path) + 1 THEN 0 ELSE path[p]>>]

\* The sum of time_matrix[a][b] + slack_time over the traversed arcs.
TransitCosts(routing, path) ==
    SumSeq([p \in 1..(Len(path) + 1) |->
               routing.data.time_matrix[TraversedArcs(path)[p][1]]
                                       [TraversedArcs(path)[p][2]]
                   + routing.slack_time])

\* What the walk of _extract_output adds up for a path before the penalty
\* check.
GrossRouteTime(routing, path) ==
    SumSeq([p \in 1..(Len(path) + 1) |->
               GetArcCostForVehicle(routing, <<0>> \o path, p)])

\* C22: for every vehicle that serves at least one stop, and any
\* vehicle_penalty >= 0, the reported vehicle_travel_time is the sum of the
\* transit costs time_matrix[a][b] + slack_time of the arcs it traverses,
\* the fixed vehicle_penalty having been removed exactly once; the penalty
\* is taken off the vehicles that were used and off no others.
C22_TravelTimeIsNetOfPenalty ==
    SolvedOutput =>
        \A k \in DOMAIN g_result.routes :
            LET path == solver_calls[1].paths[k]
                reported == g_result.routes[k].vehicle_travel_time
                removed == GrossRouteTime(self.routing, path) - reported
            IN  /\ self.vehicle_penalty >= 0
                /\ path # <<>> =>
                      /\ reported = TransitCosts(self.routing, path)
                      /\ removed = self.vehicle_penalty
                /\ path = <<>> => removed = 0

\* A solved output under the default penalty with a vehicle that went out
\* and one that stayed.
C22_Witness ==
    /\ SolvedOutput
    /\ self.vehicle_penalty = DefaultVehiclePenalty
    /\ \E k \in DOMAIN g_result.routes :
          /\ solver_calls[1].paths[k] # <<>>
          /\ g_result.routes[k].vehicle_travel_time > 0
          /\ g_result.routes[k].vehicle_travel_time < DefaultVehiclePenalty
    /\ \E k \in DOMAIN g_result.routes : solver_calls[1].paths[k] = <<>>

(***************************************************************************)
(* Properties of unused vehicles (SpecSolve)                               *)
(***************************************************************************)
\* C23: in every solved output, after any sequence of grid_search and
\* optimizer_solver calls, every unused vehicle, whose path goes straight
\* from start to end, has route_time 0 before the penalty check, so its
\* vehicle_travel_time is 0, neither negative nor reduced by the penalty,
\* and its vehicle_travel_occupancy is 0.
C23_UnusedVehicleIsAllZero ==
    SolvedOutput =>
        \A k \in DOMAIN g_result.routes :
            solver_calls[1].paths[k] = <<>> =>
                /\ GrossRouteTime(self.routing, <<>>) = 0
                /\ g_result.routes[k].vehicle_travel_time = 0
                /\ g_result.routes[k].vehicle_travel_occupancy = 0
                /\ StopIds(g_result.routes[k]) = <<0>>

\* A solved output with an unused vehicle, on an instance whose routing an
\* escalating grid_search has rebuilt with a slack the depot row or column
\* does not cancel.
C23_Witness ==
    /\ SolvedOutput
    /\ g_calls >= 1
    /\ time_callback(self.routing, 0, 0) # 0
    /\ \E k \in DOMAIN g_result.routes :
          /\ solver_calls[1].paths[k] = <<>>
          /\ g_result.routes[k].vehicle_travel_time = 0

(***************************************************************************)
(* Properties of the vehicle capacities of a model (SpecGrid)              *)
(***************************************************************************)
\* The number of vehicles of the first e entries of a fleet.
VehiclesBefore(fleet, e) ==
    SumSeq([d \in 1..e |-> fleet[d].number_of_vehicles])

\* The capacity of the k-th configured vehicle: that of the fleet entry the
\* vehicle belongs to, the entries taken in fleet order.
ConfiguredCapacity(fleet, k) ==
    LET e == CHOOSE d \in DOMAIN fleet :
                 /\ VehiclesBefore(fleet, d - 1) < k
                 /\ k <= VehiclesBefore(fleet, d)
    IN  fleet[e].capacity

\* The extra vehicles a model was built with, by the place that built it.
ExtraVehiclesOf(call) == IF call.phase = "vehicle" THEN call.i ELSE 0

\* A data model lists the capacities of the configured vehicles in fleet
\* order and then extra copies of the largest configured capacity.
CapacitiesAsConfigured(data, extra) ==
    LET fleet == g_input.route_optimizer_input.fleet
        configured == VehiclesBefore(fleet, Len(fleet))
    IN  /\ Len(data.vehicle_capacities) = configured + extra
        /\ data.num_vehicles = Len(data.vehicle_capacities)
        /\ \A k \in 1..configured :
              data.vehicle_capacities[k] = ConfiguredCapacity(fleet, k)
        /\ \A k \in (configured + 1)..(configured + extra) :
              /\ \E e \in DOMAIN fleet :
                    data.vehicle_capacities[k] = fleet[e].capacity
              /\ \A e \in DOMAIN fleet :
                    data.vehicle_capacities[k] >= fleet[e].capacity

\* C24: for every non-empty fleet and every extra_vehicles >= 0 the
\* vehicle_capacities of the model are the capacities of the fleet entries,
\* each repeated number_of_vehicles times, in fleet order, followed by
\* extra_vehicles copies of the largest configured capacity; num_vehicles
\* is the length of that list, and escalation never changes the capacities
\* of the configured vehicles.
C24_CapacitiesFlattenedThenMax ==
    g_pc \notin {"idle", "new"} =>
        /\ \A k \in 1..Len(solver_calls) :
              CapacitiesAsConfigured(solver_calls[k].routing.data,
                                     ExtraVehiclesOf(solver_calls[k]))
        /\ \A extra \in 0..IterMaxExtraVehicle :
              CapacitiesAsConfigured(create_data_model(self, extra, 0), extra)
        /\ \E extra \in 0..IterMaxExtraVehicle :
              CapacitiesAsConfigured(self.data, extra)

\* The second vehicle attempt of a call, on a fleet of two vehicles of
\* capacity 1 and then one of capacity 2, was handed the capacities
\* 1, 1, 2 and two more of 2.
C24_Witness ==
    \E k \in 1..Len(solver_calls) :
        /\ solver_calls[k].phase = "vehicle"
        /\ solver_calls[k].i = 2
        /\ solver_calls[k].routing.data.vehicle_capacities = <<1, 1, 2, 2, 2>>

(***************************************************************************)
(* Properties of the bisection of slice_matrix (SpecSlice)                 *)
(***************************************************************************)
\* The rectangles of a list that have a cell in the given rows and columns.
Within(rects, rows, cols) ==
    SelectSeq(rects, LAMBDA r :
        /\ r.start_row \in rows /\ (r.end_row - 1) \in rows
        /\ r.start_col \in cols /\ (r.end_col - 1) \in cols)

\* C25: when a rectangle exceeds max_elements, slice_matrix bisects the
\* longer side at its floor midpoint, the first half taking floor(length/2)
\* rows or columns, splits the rows when the two sides are equal, and
\* returns the rectangles of the first half before those of the second;
\* slice_matrix(0, 3, 0, 3, 8) is rows [0,1) x columns [0,3) and then rows
\* [1,3) x columns [0,3); the result is a function of the arguments.
C25_BisectsLongerSideAtFloorMidpoint ==
    s_pc = "done" =>
        LET a == s_args
            dimension_1 == a.end_row - a.start_row
            dimension_2 == a.end_col - a.start_col
            mid_row == a.start_row + (dimension_1 \div 2)
            mid_col == a.start_col + (dimension_2 \div 2)
            first == IF dimension_1 >= dimension_2
                     THEN Within(s_result, a.start_row..(mid_row - 1),
                                 a.start_col..(a.end_col - 1))
                     ELSE Within(s_result, a.start_row..(a.end_row - 1),
                                 a.start_col..(mid_col - 1))
            second == IF dimension_1 >= dimension_2
                      THEN Within(s_result, mid_row..(a.end_row - 1),
                                  a.start_col..(a.end_col - 1))
                      ELSE Within(s_result, a.start_row..(a.end_row - 1),
                                  mid_col..(a.end_col - 1))
        IN  /\ dimension_1 * dimension_2 <= a.max_elements
                  => s_result = <<SliceInput>>
            /\ dimension_1 * dimension_2 > a.max_elements =>
                  /\ first # <<>>
                  /\ second # <<>>
                  /\ s_result = first \o second
            /\ a = [start_row |-> 0, end_row |-> 3, start_col |-> 0,
                    end_col |-> 3, max_elements |-> 8]
                  => s_result = <<Rect(0, 1, 0, 3), Rect(1, 3, 0, 3)>>
            /\ a = [start_row |-> 0, end_row |-> 2, start_col |-> 0,
                    end_col |-> 4, max_elements |-> 5]
                  => s_result = <<Rect(0, 2, 0, 2), Rect(0, 2, 2, 4)>>
            /\ s_result = slice_matrix(a.start_row, a.end_row, a.start_col,
                                       a.end_col, a.max_elements)

\* slice_matrix(0, 3, 0, 3, 8) has returned its two rectangles.
C25_Witness ==
    /\ s_pc = "done"
    /\ s_args = [start_row |-> 0, end_row |-> 3, start_col |-> 0,
                 end_col |-> 3, max_elements |-> 8]
    /\ s_result = <<Rect(0, 1, 0, 3), Rect(1, 3, 0, 3)>>

(***************************************************************************)
(* Properties of get_matrix (SpecMatrix)                                   *)
(***************************************************************************)
\* The request get_matrix sends for one rectangle of stops.
MatrixRequestOf(slice) ==
    [origins |-> prepare_stops(PySlice(m_stops, slice.start_row,
                                       slice.end_row)),
     destinations |-> prepare_stops(PySlice(m_stops, slice.start_col,
                                            slice.end_col)),
     mode |-> m_costing]

\* The prepared form of the stop at 0-based index i.
PreparedStop(i) == prepare_stops(m_stops)[i + 1]

\* C26: for n >= 1 stops get_matrix issues exactly one matrix request per
\* rectangle of slice_matrix(0, n, 0, n, max_matrix_elements), in the list's
\* order, each asking for at most max_matrix_elements pairs; when it
\* returns, every cell (i, j) of the two n x n matrices has been written
\* exactly once, with the provider's duration and distance (in the
\* configured metric) from stop i to stop j.
C26_OneCallPerSliceEveryCellWrittenOnce ==
    LET n == Len(m_stops)
        rects == slice_matrix(0, n, 0, n, m_self.max_matrix_elements)
    IN  /\ m_pc \in {"loop", "wait", "done", "raised"} =>
              /\ Len(matrix_calls) <= Len(rects)
              /\ \A k \in 1..Len(matrix_calls) :
                    /\ matrix_calls[k] = MatrixRequestOf(rects[k])
                    /\ Len(matrix_calls[k].origins)
                         * Len(matrix_calls[k].destinations)
                           <= m_self.max_matrix_elements
        /\ m_pc = "done" =>
              /\ Len(matrix_calls) = Len(rects)
              /\ DOMAIN m_result.time_matrix = (0..(n - 1)) \X (0..(n - 1))
              /\ DOMAIN m_result.distance_matrix
                    = (0..(n - 1)) \X (0..(n - 1))
              /\ \A i \in 0..(n - 1) : \A j \in 0..(n - 1) :
                    /\ m_writes[<<i, j>>] = 1
                    /\ m_result.time_matrix[<<i, j>>]
                         = ApiDuration(PreparedStop(i), PreparedStop(j))
                    /\ m_result.distance_matrix[<<i, j>>]
                         = ConvertDistance(m_self,
                              ApiDistance(PreparedStop(i), PreparedStop(j)))

\* get_matrix has returned after more than one request, one of them for a
\* block that is off the diagonal.
C26_Witness ==
    /\ m_pc = "done"
    /\ Len(m_stops) >= 3
    /\ Len(matrix_calls) >= 3
    /\ \E k \in 1..Len(matrix_calls) :
          matrix_calls[k].origins # matrix_calls[k].destinations

(***************************************************************************)
(* Properties of a shared instance (SpecShared)                            *)
(***************************************************************************)
\* Three objects that come from one rebuild: the routing model was set up
\* on this manager and this data, and the manager on this data.
FromOneBuild(data, manager, routing) ==
    /\ routing.data = data
    /\ routing.manager = manager
    /\ manager.num_vehicles = data.num_vehicles
    /\ manager.num_nodes = PyLen(data.time_matrix)
    /\ manager.depot = data.depot

\* A data dictionary that carries extra vehicles or extra travel time.
CarriesExtras(data) ==
    \/ data.num_vehicles > Len(FlattenFleet(self.fleet))
    \/ data.max_travel_time > g_input.route_optimizer_input.max_travel_time

\* C27: when a lock covers every call's rebuild-and-solve sequence, every
\* solve and every extraction on a shared instance sees data, manager and
\* routing built from the same parameters: the solves of grid_search run on
\* the model its last rebuild made, optimizer_solver solves a model without
\* extras and extracts on the very objects it solved.
C27_LockedSolvesSeeOneBuild ==
    /\ (b_pc = "solve" /\ g_pc \in {"time", "vehicle", "finish"}) =>
          /\ FromOneBuild(self.data, self.manager, self.routing)
          /\ self.data = create_data_model(self, RebuildExtraVehiclesArg,
                                           RebuildExtraTimeArg)
    /\ \A k \in 1..Len(solver_calls) :
          FromOneBuild(solver_calls[k].routing.data,
                       solver_calls[k].routing.manager,
                       solver_calls[k].routing)
    /\ use_lock =>
          /\ o_routing # None =>
                /\ FromOneBuild(o_routing.data, o_routing.manager, o_routing)
                /\ ~CarriesExtras(o_routing.data)
          /\ "manager" \in DOMAIN o_view =>
                /\ o_view.data = o_routing.data
                /\ o_view.manager = o_routing.manager
          /\ "routing" \in DOMAIN o_view =>
                /\ FromOneBuild(o_view.data, o_view.manager, o_view.routing)
                /\ o_view.routing = o_routing

\* Without a lock: the second caller's solve ran on a model with extra
\* travel time or extra vehicles, and its extraction read a data dictionary
\* of a later rebuild than the manager and the routing model next to it.
C27_Witness ==
    /\ ~use_lock
    /\ o_pc = "done"
    /\ "routing" \in DOMAIN o_view
    /\ CarriesExtras(o_routing.data)
    /\ ~FromOneBuild(o_view.data, o_view.manager, o_view.routing)

(***************************************************************************)
(* The time matrix across rebuilds (SpecSolve)                             *)
(***************************************************************************)
\* The cell of the time matrix after construction, stated from the input:
\* -slack_time on the depot's row (INBOUND) or column (OUTBOUND), the
\* input's entry everywhere else.
ConstructedCell(i, j) ==
    LET inp == g_input.route_optimizer_input
    IN  IF (inp.mode = INBOUND /\ i = 0) \/ (inp.mode = OUTBOUND /\ j = 0)
        THEN 0 - inp.slack_time
        ELSE inp.time_matrix[i][j]

\* C28: after any sequence of grid_search and optimizer_solver calls, and
\* between the rebuilds of an escalation, the instance's time matrix (and
\* the one its data and its routing model hold) is the matrix of the
\* construction: the input with only row 0 (INBOUND) or only column 0
\* (OUTBOUND) replaced by -slack_time, every other entry untouched.
C28_TimeMatrixSameAcrossRebuilds ==
    g_pc \in {"ready", "time", "vehicle", "finish"} =>
        LET inp == g_input.route_optimizer_input
        IN  /\ DOMAIN self.time_matrix = DOMAIN inp.time_matrix
            /\ \A i \in DOMAIN inp.time_matrix :
                  /\ DOMAIN self.time_matrix[i] = DOMAIN inp.time_matrix[i]
                  /\ \A j \in DOMAIN inp.time_matrix[i] :
                        /\ self.time_matrix[i][j] = ConstructedCell(i, j)
                        /\ self.data.time_matrix[i][j] = ConstructedCell(i, j)
                        /\ self.routing.data.time_matrix[i][j]
                              = ConstructedCell(i, j)
            /\ self.time_matrix
                  = RouteOptimizerInit(inp, g_input.vehicle_penalty).time_matrix

\* An escalation has gone through all three kinds of rebuild and returned,
\* and an optimizer_solver call has run after it, on a matrix of three
\* nodes.
C28_Witness ==
    /\ g_pc = "ready"
    /\ matrix_writes = {"__init__", "time", "vehicle", "final"}
    /\ g_calls >= 1
    /\ Len(solver_calls) = 1
    /\ solver_calls[1].phase = "optimizer_solver"
    /\ PyLen(self.time_matrix) = 3
    /\ self.time_matrix # g_input.route_optimizer_input.time_matrix

(***************************************************************************)
(* Repeated calls on one instance (SpecSolve)                              *)
(***************************************************************************)
\* The routing model of a freshly constructed instance of the same input.
FreshRouting ==
    RouteOptimizerInit(g_input.route_optimizer_input,
                       g_input.vehicle_penalty).routing

\* Two routing models a solver cannot tell apart: the same vehicles, the
\* same max_travel_time, the same demands and the same transit cost on
\* every arc.
SameModel(r1, r2) ==
    /\ r1.data.vehicle_capacities = r2.data.vehicle_capacities
    /\ r1.data.num_vehicles = r2.data.num_vehicles
    /\ r1.data.max_travel_time = r2.data.max_travel_time
    /\ r1.data.demands = r2.data.demands
    /\ r1.vehicle_penalty = r2.vehicle_penalty
    /\ r1.manager = r2.manager
    /\ \A from_node \in Nodes(r1.manager.num_nodes) :
          \A to_node \in Nodes(r1.manager.num_nodes) :
             time_callback(r1, from_node, to_node)
                = time_callback(r2, from_node, to_node)

\* optimizer_solver has just run on an instance whose grid_search went
\* through an escalation before.
SolvedAfterEscalation ==
    /\ g_pc = "ready"
    /\ "final" \in matrix_writes
    /\ Len(solver_calls) = 1
    /\ solver_calls[1].phase = "optimizer_solver"

\* The step that starts a grid_search call right after a grid_search call,
\* with a solver whose answer depends only on the model: given the model of
\* the previous call's first solve again, it answers as it did then.
SecondGridSearchInARow ==
    /\ g_pc = "ready"
    /\ g_calls >= 1
    /\ g_calls' = g_calls + 1
    /\ Len(solver_calls) >= 1
    /\ solver_calls[1].phase = "baseline"
    /\ SameModel(solver_calls'[1].routing, solver_calls[1].routing)
          => solver_calls'[1].solution = solver_calls[1].solution

\* C29: with a solver whose answer depends only on its model, a grid_search
\* call right after a grid_search call returns the value the first one
\* returned, and optimizer_solver after a grid_search escalation solves the
\* same model (vehicles, max_travel_time, transit costs) as on a freshly
\* constructed instance, for every slack_time.
C29_RepeatedCallsSeeTheFreshModel ==
    /\ [](SolvedAfterEscalation
            => SameModel(solver_calls[1].routing, FreshRouting))
    /\ [][(SecondGridSearchInARow /\ g_pc' = "ready")
            => g_result' = g_result]_vars

(***************************************************************************)
(* Termination of slice_matrix (SpecCall)                                  *)
(***************************************************************************)
\* The rectangle of the outer call.
CallInput ==
    Rect(c_args.start_row, c_args.end_row, c_args.start_col, c_args.end_col)

\* A rectangle with at least one row and one column.
NonEmpty(r) == r.end_row > r.start_row /\ r.end_col > r.start_col

\* What holds of every state of a call with max_elements >= 1: a recursive
\* call gets a rectangle with fewer cells than its caller's and with at
\* least one row and one column, no frame is refused, and the lists
\* returned for a non-empty input hold no empty rectangle.
ShrinkingCalls ==
    /\ (c_pc = "enter" /\ c_stack # <<>>) =>
          /\ NonEmpty(c_call)
          /\ RectElements(c_call) < RectElements(c_stack[Len(c_stack)].rect)
    /\ \A k \in 1..Len(c_stack) : NonEmpty(c_stack[k].rect)
    /\ c_pc # "raised"
    /\ NonEmpty(CallInput) =>
          /\ \A k \in 1..Len(c_ret) : NonEmpty(c_ret[k])
          /\ c_pc = "done" => \A k \in 1..Len(c_result) : NonEmpty(c_result[k])
    /\ c_pc = "done" =>
          c_result = slice_matrix(c_args.start_row, c_args.end_row,
                                  c_args.start_col, c_args.end_col,
                                  c_args.max_elements)

\* C30: slice_matrix terminates for every rectangle with non-negative side
\* lengths and every max_elements >= 1, each recursive call receiving a
\* rectangle with strictly fewer cells and at least one row and one column,
\* so that no rectangle returned for a non-empty input is empty; with
\* max_elements < 1 and a non-empty rectangle the call never returns.
C30_TerminatesIffMaxElementsPositive ==
    /\ [](c_args.max_elements >= 1 => ShrinkingCalls)
    /\ (c_args.max_elements >= 1) ~> (c_pc = "done")
    /\ []((c_args.max_elements < 1 /\ NonEmpty(CallInput))
            => c_pc # "done")

\* A call with max_elements >= 1 has returned from three levels of
\* recursion or more.
C30_Witness ==
    /\ c_pc = "done"
    /\ c_args.max_elements >= 1
    /\ Len(c_result) >= 8

\* With max_elements < 1 the recursion on a non-empty rectangle went on
\* until no frame was left: the same one-cell rectangle called itself over
\* and over.
UnboundedRecursion ==
    /\ c_pc = "raised"
    /\ c_args.max_elements < 1
    /\ NonEmpty(CallInput)
    /\ Len(c_stack) = MaxDepth
    /\ c_stack[MaxDepth].rect = c_stack[MaxDepth - 1].rect
    /\ c_call = c_stack[MaxDepth].rect

====
